---- MODULE Spec2Model ----
(***************************************************************************)
(* The result cache of Hercule (src/backend/cache.py): an in-memory index  *)
(* mirrored by a JSON file, with a TTL checked on read.                    *)
(*                                                                         *)
(* Time is counted in whole days: a datetime is [t, aware], t the day and  *)
(* aware whether it carries a UTC offset.  In Spec and SpecAnalyze a call  *)
(* is one atomic step; in SpecThreads and SpecBurst a call is a sequence   *)
(* of steps that interleave with those of another thread.  The variable    *)
(* event records the last call that ended, its arguments and what it       *)
(* returned or raised.  SpecAnalyze adds POST /analyze of main.py.         *)
(* SpecServer is the event loop of main.py with requests waiting together. *)
(* SpecCrash adds a stop of the process inside a save, and SpecConstruct    *)
(* is the construction of the instance by several threads.                 *)
(* SpecEvaluator applies the evaluator of service_llm.py to one request,   *)
(* SpecKeys applies generate_key to two texts, and SpecResolve runs one    *)
(* call of find_policy of service_discovery.py.                            *)
(***************************************************************************)
EXTENDS Integers, FiniteSets, Sequences, TLC

VARIABLES memory_cache, cache_file, initialized, now, medium, advances, event,
          thr, file_lock, promised, called

\* The state of the threads: thr[t] is where thread t stands in its call,
\* file_lock the holder of _file_lock; promised and called are history.
threading == <<thr, file_lock, promised, called>>

vars == <<memory_cache, cache_file, initialized, now, medium, advances, event, threading>>

(***************************************************************************)
(* Constants of the program and bounds of the model.                       *)
(***************************************************************************)
CACHE_TTL_DAYS == 30

MaxAdvance == 2

Keys == {"k1", "k2"}

\* timedelta(days=CACHE_TTL_DAYS)
TTL == CACHE_TTL_DAYS

\* The clock moves by one day or by the TTL.
ClockSteps == {1, TTL}

(***************************************************************************)
(* models.py: AnalysisResult and its JSON form.                            *)
(***************************************************************************)
Priorities == {"high", "medium", "low"}

ResultFields == {"score", "summary", "red_flags", "user_action_items", "timestamp", "url"}

\* Two valid results that differ in every field.  An ActionItem url of
\* "None" stands for Python's None.
Results ==
  { [score |-> 0, summary |-> "s1", red_flags |-> <<>>, user_action_items |-> <<>>,
     timestamp |-> [t |-> 0, aware |-> TRUE], url |-> ""],
    [score |-> 100, summary |-> "s2", red_flags |-> <<"f1", "f2">>,
     user_action_items |-> <<[text |-> "a", url |-> "None", priority |-> "high"]>>,
     timestamp |-> [t |-> 95, aware |-> FALSE], url |-> "https://x"] }

NoResult == [none |-> TRUE]

\* datetime.isoformat / pydantic's JSON form of a datetime: an ISO-8601 string.
IsoFormat(dt) == [type |-> "str", iso |-> TRUE, t |-> dt.t, aware |-> dt.aware]

\* A parser that drops the UTC offset.
FromIsoFormatNaive(s) == [t |-> s.t, aware |-> FALSE]

\* datetime.fromisoformat on an ISO-8601 string.
FromIsoFormat(s) == [t |-> s.t, aware |-> s.aware]

\* result.model_dump(mode='json')
ModelDump(r) ==
  [type |-> "dict", fields |-> ResultFields,
   score |-> r.score, summary |-> r.summary, red_flags |-> r.red_flags,
   user_action_items |-> r.user_action_items,
   timestamp |-> IsoFormat(r.timestamp), url |-> r.url]

\* A score field without bounds.
ScoreUnbounded(n) == TRUE

\* Field(ge=0, le=100)
ScoreInRange(n) == 0 <= n /\ n <= 100

\* Field(pattern="^(high|medium|low)$")
PriorityOk(p) == p \in Priorities

\* Whether AnalysisResult(**j) validates, j a JSON object: every field is
\* required, extra fields are ignored.
Validates(j) ==
  /\ ResultFields \subseteq j.fields
  /\ ScoreInRange(j.score)
  /\ \A i \in 1..Len(j.user_action_items) : PriorityOk(j.user_action_items[i].priority)
  /\ j.timestamp.type = "str" /\ j.timestamp.iso

\* AnalysisResult(**j) for a j that validates.
AnalysisResult(j) ==
  [score |-> j.score, summary |-> j.summary, red_flags |-> j.red_flags,
   user_action_items |-> j.user_action_items,
   timestamp |-> FromIsoFormat(j.timestamp), url |-> j.url]

(***************************************************************************)
(* JSON values of the index and of the file.                               *)
(***************************************************************************)
Absent == [shape |-> "absent"]

\* A JSON value that is no object where a record is expected (a number).
ScalarEntry == [shape |-> "scalar"]

JsonNull == [type |-> "null"]

EmptyDict == [shape |-> "dict", items |-> [k \in Keys |-> Absent]]

JsonList == [shape |-> "list"]

JsonNullTop == [shape |-> "null"]

\* The record set() builds.
NewEntry(k, r, at) ==
  [shape |-> "object", fields |-> {"result", "timestamp", "text_hash"},
   result |-> ModelDump(r),
   timestamp |-> IsoFormat([t |-> at, aware |-> TRUE])]

\* text_hash in self._memory_cache, for an index that is a dict.
Contains(c, k) == c.items[k].shape # "absent"

\* An eviction that deletes nothing.
DelNothing(c, k) == c

\* An eviction that empties the index.
DelAll(c, k) == EmptyDict

\* del self._memory_cache[text_hash]
Del(c, k) == [c EXCEPT !.items[k] = Absent]

\* An expiry test that already fails at the TTL.
ExpiredAtTtl(ts, at) == at - ts.t >= TTL

\* datetime.now(timezone.utc) - cached_timestamp > timedelta(days=CACHE_TTL_DAYS)
Expired(ts, at) == at - ts.t > TTL

(***************************************************************************)
(* The durable file.  content is what a reader finds: no file, a file that *)
(* cannot be opened at that moment, bytes that are not UTF-8, text that is *)
(* not JSON, or JSON text holding value.  A JSON value that is no mapping  *)
(* is the empty list or null.  medium is what a writer meets: "writable",  *)
(* "readonly" (open(..., 'w') raises IOError) or "full" (open truncates    *)
(* the file and the write raises IOError).                                 *)
(***************************************************************************)
Media == {"writable", "readonly", "full"}

FileMissing == [content |-> "missing"]

FileUnreadable == [content |-> "unreadable"]

FileUndecodable == [content |-> "undecodable"]

FileUnparsable == [content |-> "unparsable"]

JsonFile(v) == [content |-> "json", value |-> v]

\* A loader that stamps every record it reads with the time of loading.
LoadRenewing(f) ==
  CASE f.content = "undecodable" -> [exc |-> "UnicodeDecodeError", cache |-> EmptyDict]
    [] f.content = "json" /\ f.value.shape = "dict" ->
         [exc |-> "none",
          cache |-> [f.value EXCEPT !.items =
                       [k \in Keys |->
                          IF /\ f.value.items[k].shape = "object"
                             /\ "timestamp" \in f.value.items[k].fields
                             /\ f.value.items[k].timestamp.type = "str"
                          THEN [f.value.items[k] EXCEPT !.timestamp.t = now]
                          ELSE f.value.items[k]]]]
    [] f.content = "json" /\ f.value.shape # "dict" -> [exc |-> "none", cache |-> f.value]
    [] OTHER -> [exc |-> "none", cache |-> EmptyDict]

\* A loader that makes a record out of what is left of a partial file.
LoadSalvaging(f) ==
  CASE f.content = "missing" -> [exc |-> "none", cache |-> EmptyDict]
    [] f.content = "unparsable"
         -> [exc |-> "none",
             cache |-> [shape |-> "dict",
                        items |-> [k \in Keys |-> IF k = "k1" THEN ScalarEntry ELSE Absent]]]
    [] f.content = "unreadable" -> [exc |-> "none", cache |-> EmptyDict]
    [] f.content = "undecodable" -> [exc |-> "UnicodeDecodeError", cache |-> EmptyDict]
    [] f.content = "json" -> [exc |-> "none", cache |-> f.value]

\* _load_from_file: the index it leaves, and the exception it lets through.
LoadFromFile(f) ==
  CASE f.content = "missing" -> [exc |-> "none", cache |-> EmptyDict]
    [] f.content = "unparsable" -> [exc |-> "none", cache |-> EmptyDict]
    [] f.content = "unreadable" -> [exc |-> "none", cache |-> EmptyDict]
    [] f.content = "undecodable" -> [exc |-> "UnicodeDecodeError", cache |-> EmptyDict]
    [] f.content = "json" -> [exc |-> "none", cache |-> f.value]

\* A save that writes nothing.
SaveNothing(c, f, m) == f

\* A save that rewrites only a file it can parse.
SaveOverParsable(c, f, m) ==
  IF m = "writable" /\ f.content \in {"json", "missing"} THEN JsonFile(c)
  ELSE IF m = "full" THEN [content |-> "unparsable"]
  ELSE f

\* _save_to_file: the file it leaves when it dumps index c over file f.
SaveToFile(c, f, m) ==
  CASE m = "writable" -> JsonFile(c)
    [] m = "readonly" -> f
    [] m = "full" -> FileUnparsable

(***************************************************************************)
(* get                                                                     *)
(***************************************************************************)
Exceptions == {"TypeError", "KeyError", "ValueError", "UnicodeDecodeError", "RuntimeError"}

\* except (KeyError, ValueError)
Caught(exc) == exc \in {"KeyError", "ValueError"}

\* Lines 103-104: "fresh", "expired", or the exception raised.
CheckTimestamp(e, at) ==
  IF e.shape # "object" THEN "TypeError"
  ELSE IF "timestamp" \notin e.fields THEN "KeyError"
  ELSE IF e.timestamp.type # "str" THEN "TypeError"
  ELSE IF ~e.timestamp.iso THEN "ValueError"
  ELSE IF ~e.timestamp.aware THEN "TypeError"
  ELSE IF Expired(FromIsoFormat(e.timestamp), at) THEN "expired"
  ELSE "fresh"

\* Line 115: "ok" or the exception raised.
ParseResult(e) ==
  IF "result" \notin e.fields THEN "KeyError"
  ELSE IF e.result.type # "dict" THEN "TypeError"
  ELSE IF ~Validates(e.result) THEN "ValueError"
  ELSE "ok"

Outcome(ret, res, evict) == [ret |-> ret, res |-> res, evict |-> evict]

\* What an except clause of get makes of exception exc.
Handle(exc) ==
  IF Caught(exc) THEN Outcome("None", NoResult, FALSE) ELSE Outcome(exc, NoResult, FALSE)

\* get(k) on index c at time at: what it returns or raises, and whether it evicts k.
GetOutcome(c, k, at) ==
  IF c.shape = "null" THEN Outcome("TypeError", NoResult, FALSE)
  ELSE IF c.shape = "list" THEN Outcome("None", NoResult, FALSE)
  ELSE IF ~Contains(c, k) THEN Outcome("None", NoResult, FALSE)
  ELSE LET e == c.items[k]
           ts == CheckTimestamp(e, at)
       IN  IF ts = "expired" THEN Outcome("None", NoResult, TRUE)
           ELSE IF ts # "fresh" THEN Handle(ts)
           ELSE LET p == ParseResult(e)
                IN  IF p = "ok" THEN Outcome("value", AnalysisResult(e.result), FALSE)
                    ELSE Handle(p)

Event(op, k, arg, ret, res, n) ==
  [op |-> op, key |-> k, arg |-> arg, ret |-> ret, res |-> res, n |-> n]

\* A get that restamps the record it returns.
GetTouching(k) ==
  /\ initialized
  /\ LET o == GetOutcome(memory_cache, k, now)
         c == IF o.evict THEN Del(memory_cache, k)
              ELSE IF o.ret = "value"
              THEN [memory_cache EXCEPT !.items[k].timestamp = IsoFormat([t |-> now, aware |-> TRUE])]
              ELSE memory_cache
     IN  /\ memory_cache' = c
         /\ cache_file' = IF o.evict \/ o.ret = "value"
                          THEN SaveToFile(c, cache_file, medium)
                          ELSE cache_file
         /\ event' = Event("get", k, NoResult, o.ret, o.res, -1)
  /\ UNCHANGED <<initialized, now, medium, advances>>
  /\ UNCHANGED threading

\* get(text_hash)
Get(k) ==
  /\ initialized
  /\ LET o == GetOutcome(memory_cache, k, now)
     IN  /\ memory_cache' = IF o.evict THEN Del(memory_cache, k) ELSE memory_cache
         /\ cache_file' = IF o.evict
                          THEN SaveToFile(Del(memory_cache, k), cache_file, medium)
                          ELSE cache_file
         /\ event' = Event("get", k, NoResult, o.ret, o.res, -1)
  /\ UNCHANGED <<initialized, now, medium, advances>>
  /\ UNCHANGED threading

(***************************************************************************)
(* set, clear, size                                                        *)
(***************************************************************************)
\* A store that keeps the timestamp of the record it replaces.
StoreKeepingStamp(c, k, r, at) ==
  IF c.shape # "dict" THEN [exc |-> "TypeError", cache |-> c]
  ELSE IF Contains(c, k) /\ c.items[k].shape = "object" /\ "timestamp" \in c.items[k].fields
  THEN [exc |-> "none",
        cache |-> [c EXCEPT !.items[k] =
                     [NewEntry(k, r, at) EXCEPT !.timestamp = c.items[k].timestamp]]]
  ELSE [exc |-> "none", cache |-> [c EXCEPT !.items[k] = NewEntry(k, r, at)]]

\* self._memory_cache[text_hash] = {...}: item assignment needs a dict.
Store(c, k, r, at) ==
  IF c.shape = "dict"
  THEN [exc |-> "none", cache |-> [c EXCEPT !.items[k] = NewEntry(k, r, at)]]
  ELSE [exc |-> "TypeError", cache |-> c]

Set(k, r) ==
  /\ initialized
  /\ LET s == Store(memory_cache, k, r, now)
     IN  /\ memory_cache' = s.cache
         /\ cache_file' = IF s.exc = "none"
                          THEN SaveToFile(s.cache, cache_file, medium)
                          ELSE cache_file
         /\ event' = Event("set", k, r, IF s.exc = "none" THEN "None" ELSE s.exc, NoResult, -1)
  /\ UNCHANGED <<initialized, now, medium, advances>>
  /\ UNCHANGED threading

\* A clear that empties the index and leaves the file.
ClearIndexOnly ==
  /\ initialized
  /\ memory_cache' = EmptyDict
  /\ event' = Event("clear", "-", NoResult, "None", NoResult, -1)
  /\ UNCHANGED <<cache_file, initialized, now, medium, advances>>
  /\ UNCHANGED threading

\* clear()
Clear ==
  /\ initialized
  /\ memory_cache' = EmptyDict
  /\ cache_file' = SaveToFile(EmptyDict, cache_file, medium)
  /\ event' = Event("clear", "-", NoResult, "None", NoResult, -1)
  /\ UNCHANGED <<initialized, now, medium, advances>>
  /\ UNCHANGED threading

\* A count that leaves out the records whose TTL has run out.
LenUnexpired(c) ==
  CASE c.shape = "dict" ->
         [exc |-> "none",
          n |-> Cardinality({k \in Keys : Contains(c, k)
                                          /\ CheckTimestamp(c.items[k], now) # "expired"})]
    [] c.shape = "list" -> [exc |-> "none", n |-> 0]
    [] c.shape = "null" -> [exc |-> "TypeError", n |-> -1]

\* len(self._memory_cache)
Len_(c) ==
  CASE c.shape = "dict" -> [exc |-> "none", n |-> Cardinality({k \in Keys : Contains(c, k)})]
    [] c.shape = "list" -> [exc |-> "none", n |-> 0]
    [] c.shape = "null" -> [exc |-> "TypeError", n |-> -1]

Size ==
  /\ initialized
  /\ LET l == Len_(memory_cache)
     IN  event' = Event("size", "-", NoResult, IF l.exc = "none" THEN "value" ELSE l.exc, NoResult, l.n)
  /\ UNCHANGED <<memory_cache, cache_file, initialized, now, medium, advances>>
  /\ UNCHANGED threading

(***************************************************************************)
(* Construction, restart and the environment.                              *)
(***************************************************************************)
\* CacheManager(): lines 42-45, on a fresh instance.
Construct(f) ==
  LET l == LoadFromFile(f)
  IN  [cache |-> l.cache, initialized |-> l.exc = "none",
       event |-> Event("init", "-", NoResult, IF l.exc = "none" THEN "None" ELSE l.exc, NoResult, -1)]

\* The process stops between two calls and is started again on the same file.
Restart ==
  /\ LET c == Construct(cache_file)
     IN  /\ memory_cache' = c.cache
         /\ initialized' = c.initialized
         /\ event' = c.event
  /\ UNCHANGED <<cache_file, now, medium, advances>>
  /\ UNCHANGED threading

Advance(d) ==
  /\ advances < MaxAdvance
  /\ now' = now + d
  /\ advances' = advances + 1
  /\ event' = Event("advance", "-", NoResult, "None", NoResult, -1)
  /\ UNCHANGED <<memory_cache, cache_file, initialized, medium>>
  /\ UNCHANGED threading

SetMedium(m) ==
  /\ m # medium
  /\ medium' = m
  /\ event' = Event("medium", "-", NoResult, "None", NoResult, -1)
  /\ UNCHANGED <<memory_cache, cache_file, initialized, now, advances>>
  /\ UNCHANGED threading

(***************************************************************************)
(* Files found at the first start.                                         *)
(***************************************************************************)
OldResult == CHOOSE r \in Results : r.score = 0

\* A record written by an earlier run on day 0, carrying an extra field.
GoodEntry ==
  [NewEntry("k1", OldResult, 0) EXCEPT !.fields = @ \cup {"extra"}]

NonIsoString == [type |-> "str", iso |-> FALSE, t |-> 0, aware |-> FALSE]

\* Records that are corrupt, one way each.
CorruptEntries ==
  { ScalarEntry,
    [GoodEntry EXCEPT !.fields = @ \ {"timestamp"}],
    [GoodEntry EXCEPT !.timestamp = JsonNull],
    [GoodEntry EXCEPT !.timestamp = NonIsoString],
    [GoodEntry EXCEPT !.timestamp.aware = FALSE],
    [GoodEntry EXCEPT !.fields = @ \ {"result"}],
    [GoodEntry EXCEPT !.result = JsonNull],
    [GoodEntry EXCEPT !.result.score = 101],
    [GoodEntry EXCEPT !.result.fields = @ \ {"summary"}] }

InitFiles ==
  {FileMissing, FileUnreadable, FileUndecodable, FileUnparsable,
   JsonFile(JsonList), JsonFile(JsonNullTop)}
  \cup { JsonFile([shape |-> "dict", items |-> [k \in Keys |-> IF k = "k1" THEN e ELSE Absent]]) :
           e \in {Absent, GoodEntry} \cup CorruptEntries }

Threads == {"t1", "t2"}

\* A thread that is in no call.
Idle ==
  [pc |-> "idle", op |-> "-", key |-> "-", arg |-> NoResult,
   snap |-> EmptyDict, live |-> TRUE, cur |-> EmptyDict, expect |-> NoResult, valid |-> FALSE]

\* No thread is in a call and _file_lock is free.
InitThreading ==
  /\ thr = [t \in Threads |-> Idle]
  /\ file_lock = "free"
  /\ promised = [k \in Keys |-> NoResult]
  /\ called = {}

Init ==
  /\ now = 0
  /\ advances = 0
  /\ medium = "writable"
  /\ cache_file \in InitFiles
  /\ memory_cache = Construct(cache_file).cache
  /\ initialized = Construct(cache_file).initialized
  /\ event = Construct(cache_file).event
  /\ InitThreading

Next ==
  \/ \E k \in Keys : Get(k)
  \/ \E k \in Keys, r \in Results : Set(k, r)
  \/ Clear
  \/ Size
  \/ Restart
  \/ \E d \in ClockSteps : Advance(d)
  \/ \E m \in Media : SetMedium(m)

Spec == Init /\ [][Next]_vars

(***************************************************************************)
(* CacheManager() called by several threads on the class as defined.       *)
(*                                                                         *)
(* thr[t].pc is the line thread t stands at in __new__ and __init__;       *)
(* memory_cache and initialized are the attributes of the one instance;    *)
(* event holds the state of the class (_instance, _lock), whether the      *)
(* instance has its _initialized attribute yet, and the history: how many  *)
(* instances were made, how often the index was emptied, how many file     *)
(* locks were made, and the keys set through the instance.                 *)
(***************************************************************************)
\* Lines 25-26: _instance = None, _lock = Lock().
ClassDefined ==
  [op |-> "construct", instance |-> FALSE, flag |-> FALSE, cls_lock |-> "free",
   instances |-> 0, emptied |-> 0, locks |-> 0, stored |-> {}]

At(t, pc) == thr' = [thr EXCEPT ![t] = [Idle EXCEPT !.op = "construct", !.pc = pc]]

\* Line 29: if cls._instance is None
NewTest(t) ==
  /\ thr[t] = Idle
  /\ At(t, IF event.instance THEN "init_test" ELSE "new_lock")
  /\ UNCHANGED <<memory_cache, cache_file, initialized, now, medium, advances, event,
                 file_lock, promised, called>>

\* Lines 30-31: with cls._lock: if cls._instance is None
NewLock(t) ==
  /\ thr[t].pc = "new_lock"
  /\ event.cls_lock = "free"
  /\ IF event.instance
     THEN At(t, "init_test") /\ UNCHANGED event
     ELSE At(t, "new_create") /\ event' = [event EXCEPT !.cls_lock = t]
  /\ UNCHANGED <<memory_cache, cache_file, initialized, now, medium, advances,
                 file_lock, promised, called>>

\* Line 32: cls._instance = super().__new__(cls)
NewCreate(t) ==
  /\ thr[t].pc = "new_create"
  /\ At(t, "new_flag")
  /\ event' = [event EXCEPT !.instance = TRUE, !.instances = @ + 1]
  /\ UNCHANGED <<memory_cache, cache_file, initialized, now, medium, advances,
                 file_lock, promised, called>>

\* Line 33: cls._instance._initialized = False, and the end of the with block.
NewFlag(t) ==
  /\ thr[t].pc = "new_flag"
  /\ At(t, "init_test")
  /\ initialized' = FALSE
  /\ event' = [event EXCEPT !.flag = TRUE, !.cls_lock = "free"]
  /\ UNCHANGED <<memory_cache, cache_file, now, medium, advances, file_lock, promised, called>>

\* Lines 39-40: if self._initialized: return.  The attribute is read on an
\* instance that may not have it yet: AttributeError.
InitTest(t) ==
  /\ thr[t].pc = "init_test"
  /\ At(t, IF ~event.flag THEN "AttributeError"
           ELSE IF initialized THEN "ready" ELSE "init_index")
  /\ UNCHANGED <<memory_cache, cache_file, initialized, now, medium, advances, event,
                 file_lock, promised, called>>

\* Line 42: self._memory_cache = {}
InitIndex(t) ==
  /\ thr[t].pc = "init_index"
  /\ At(t, "init_lock")
  /\ memory_cache' = EmptyDict
  /\ event' = [event EXCEPT !.emptied = @ + 1]
  /\ UNCHANGED <<cache_file, initialized, now, medium, advances, file_lock, promised, called>>

\* Line 43: self._file_lock = Lock()
InitLock(t) ==
  /\ thr[t].pc = "init_lock"
  /\ At(t, "init_load")
  /\ file_lock' = "free"
  /\ event' = [event EXCEPT !.locks = @ + 1]
  /\ UNCHANGED <<memory_cache, cache_file, initialized, now, medium, advances, promised, called>>

\* Line 44: self._load_from_file()
InitLoad(t) ==
  /\ thr[t].pc = "init_load"
  /\ LET l == LoadFromFile(cache_file)
     IN  /\ memory_cache' = l.cache
         /\ At(t, IF l.exc = "none" THEN "init_flag" ELSE l.exc)
  /\ UNCHANGED <<cache_file, initialized, now, medium, advances, event,
                 file_lock, promised, called>>

\* Line 45: self._initialized = True, and the return of the instance.
InitFlag(t) ==
  /\ thr[t].pc = "init_flag"
  /\ At(t, "ready")
  /\ initialized' = TRUE
  /\ UNCHANGED <<memory_cache, cache_file, now, medium, advances, event,
                 file_lock, promised, called>>

\* A thread that has its instance calls set through it.
SetThrough(t, k, r) ==
  /\ thr[t].pc = "ready"
  /\ LET s == Store(memory_cache, k, r, now)
     IN  /\ memory_cache' = s.cache
         /\ cache_file' = SaveToFile(s.cache, cache_file, medium)
  /\ event' = [event EXCEPT !.stored = @ \cup {k}]
  /\ UNCHANGED <<initialized, now, medium, advances, threading>>

\* The class is defined, no instance exists, and no thread has called it.
InitConstruct ==
  /\ now = 0
  /\ advances = 0
  /\ medium = "writable"
  /\ cache_file \in {FileMissing,
                     JsonFile([shape |-> "dict",
                               items |-> [k \in Keys |-> IF k = "k1" THEN GoodEntry ELSE Absent]])}
  /\ memory_cache = EmptyDict
  /\ initialized = FALSE
  /\ event = ClassDefined
  /\ InitThreading

NextConstruct ==
  \E t \in Threads :
    \/ NewTest(t)
    \/ NewLock(t)
    \/ NewCreate(t)
    \/ NewFlag(t)
    \/ InitTest(t)
    \/ InitIndex(t)
    \/ InitLock(t)
    \/ InitLoad(t)
    \/ InitFlag(t)
    \/ \E k \in Keys, r \in Results : SetThrough(t, k, r)

SpecConstruct == InitConstruct /\ [][NextConstruct]_vars

(***************************************************************************)
(* A stop of the process inside a durable write.                           *)
(***************************************************************************)
\* The indexes a set, a clear or an evicting get makes of index c at time at.
Changed(c, at) ==
  {Store(c, k, r, at).cache : k \in {j \in Keys : c.shape = "dict"}, r \in Results}
    \cup {EmptyDict}
    \cup {Del(c, k) : k \in {j \in Keys : GetOutcome(c, j, at).evict}}

\* What a stop leaves of file f during the save of index c on medium m: the
\* file as it was, if the stop came before the open or the open failed; a
\* file that open has truncated and json.dump has written in part or not at
\* all; or the whole dump, if the stop came after the last write.
StoppedFiles(c, f, m) ==
  CASE m = "writable" -> {f, FileUnparsable, JsonFile(c)}
    [] m = "full" -> {f, FileUnparsable}
    [] m = "readonly" -> {f}

\* A call changes the index and saves it; the process stops inside
\* _save_to_file and is started again on what the save left.
StopInSave ==
  /\ initialized
  /\ \E c \in Changed(memory_cache, now) :
     \E f \in StoppedFiles(c, cache_file, medium) :
       /\ cache_file' = f
       /\ memory_cache' = Construct(f).cache
       /\ initialized' = Construct(f).initialized
       /\ event' = [Construct(f).event EXCEPT !.key = "save"]
  /\ UNCHANGED <<now, medium, advances>>
  /\ UNCHANGED threading

NextCrash == Next \/ StopInSave

SpecCrash == Init /\ [][NextCrash]_vars

(***************************************************************************)
(* main.py: POST /analyze, the cache-aside orchestrator.  A text is a      *)
(* sequence of characters; a url is a string, "" when none was given.      *)
(***************************************************************************)
Whitespace == {" "}

Texts == {<<>>, <<" ">>, <<"a">>, <<" ", "A">>}

Urls == {"", "https://x"}

RECURSIVE LStrip(_)
LStrip(s) == IF s # <<>> /\ Head(s) \in Whitespace THEN LStrip(Tail(s)) ELSE s

RECURSIVE RStrip(_)
RStrip(s) ==
  IF s # <<>> /\ s[Len(s)] \in Whitespace THEN RStrip(SubSeq(s, 1, Len(s) - 1)) ELSE s

\* A strip that takes the whitespace inside the text too.
RECURSIVE StripAll(_)
StripAll(s) ==
  IF s = <<>> THEN <<>>
  ELSE IF Head(s) \in Whitespace THEN StripAll(Tail(s))
  ELSE <<Head(s)>> \o StripAll(Tail(s))

\* str.strip()
Strip(s) == RStrip(LStrip(s))

\* str.lower()
Lower(s) == [i \in 1..Len(s) |-> IF s[i] = "A" THEN "a" ELSE s[i]]

\* The characters of s in a row.
RECURSIVE Join(_)
Join(s) == IF s = <<>> THEN "" ELSE Head(s) \o Join(Tail(s))

\* hashlib.sha256(...).hexdigest(), taken as one-to-one: the digests of "a"
\* and "b" are the keys k1 and k2 of the cache, each other text has a digest
\* of its own.
Sha256Hex(s) ==
  IF s = <<"a">> THEN "k1" ELSE IF s = <<"b">> THEN "k2" ELSE "sha256:" \o Join(s)

\* generate_key
GenerateKey(text) == Sha256Hex(Lower(Strip(text)))

\* AnalyzeRequest.validate_policy_text: a text of whitespace only becomes "".
ValidatePolicyText(v) == IF v # <<>> /\ Strip(v) = <<>> THEN Strip(v) ELSE v

\* What requests.get and BeautifulSoup make of the url: a failure, or a page
\* whose text, stripped, may be empty.
FetchReplies ==
  {[ok |-> FALSE, text |-> <<>>], [ok |-> TRUE, text |-> <<>>], [ok |-> TRUE, text |-> <<"a">>]}

\* What llm_service.analyze_policy raises: every failure of the provider call
\* leaves it as a plain Exception.
LlmFailures == {"Exception"}

\* The results llm_service.analyze_policy can build for url at time at.
LlmResults(url, at) ==
  { [score |-> 70, summary |-> "s1", red_flags |-> <<>>, user_action_items |-> <<>>,
     timestamp |-> [t |-> at, aware |-> TRUE], url |-> url],
    [score |-> 20, summary |-> "s2", red_flags |-> <<"f1">>,
     user_action_items |-> <<[text |-> "a", url |-> "None", priority |-> "high"]>>,
     timestamp |-> [t |-> at, aware |-> TRUE], url |-> url] }

\* _validate_response: the fields a reply must have.
ReplyFields == {"score", "summary", "red_flags", "user_action_items"}

\* What the provider call gives: no connection, a content that is not JSON,
\* or a JSON object; of the objects two are well-formed, one lacks a field,
\* one has a score out of range and one an action item of unknown priority.
ProviderReplies ==
  LET r1 == [kind |-> "json", fields |-> ReplyFields, score |-> 70, summary |-> "s1",
             red_flags |-> <<>>, user_action_items |-> <<>>]
      r2 == [kind |-> "json", fields |-> ReplyFields, score |-> 20, summary |-> "s2",
             red_flags |-> <<"f1">>,
             user_action_items |-> <<[text |-> "a", url |-> "None", priority |-> "high"]>>]
  IN  { [kind |-> "unreachable"], [kind |-> "text"], r1, r2,
        [r1 EXCEPT !.fields = @ \ {"summary"}],
        [r1 EXCEPT !.score = 150],
        [r2 EXCEPT !.user_action_items = <<[text |-> "a", url |-> "None", priority |-> "urgent"]>>] }

\* The keyword arguments of AnalysisResult(...) at lines 272-279, as a JSON
\* object: the reply's fields, the time of the call and the request's url.
ResultJson(p, url, at) ==
  [type |-> "dict", fields |-> p.fields \cup {"timestamp", "url"},
   score |-> p.score, summary |-> p.summary, red_flags |-> p.red_flags,
   user_action_items |-> p.user_action_items,
   timestamp |-> IsoFormat([t |-> at, aware |-> TRUE]), url |-> url]

\* A try block that takes every JSON object as it comes.
RemoteRaisesLenient(p, url, at) ==
  IF p.kind = "unreachable" THEN "APIConnectionError"
  ELSE IF p.kind = "text" THEN "JSONDecodeError"
  ELSE "none"

\* What the try block of analyze_policy raises on reply p, "none" if nothing.
RemoteRaises(p, url, at) ==
  IF p.kind = "unreachable" THEN "APIConnectionError"
  ELSE IF p.kind = "text" THEN "JSONDecodeError"
  ELSE IF ~(ReplyFields \subseteq p.fields) THEN "ValueError"
  ELSE IF ~Validates(ResultJson(p, url, at)) THEN "ValidationError"
  ELSE "none"

\* The except clauses at lines 281-287: whatever was raised leaves as a new
\* plain Exception.
Rewrap(exc) == "Exception"

\* LLMService.analyze_policy with a provider configured.
RemoteAnalyze(p, url, at) ==
  LET e == RemoteRaises(p, url, at)
  IN  IF e = "none"
      THEN [exc |-> "none", res |-> AnalysisResult(ResultJson(p, url, at))]
      ELSE [exc |-> Rewrap(e), res |-> NoResult]

LlmOutcomes(url, at) == {RemoteAnalyze(p, url, at) : p \in ProviderReplies}

\* The except clauses around the evaluator call.
HttpStatus(exc) ==
  CASE exc = "ValueError" -> 400
    [] exc = "ConnectionError" -> 503
    [] OTHER -> 500

\* if not request.policy_text and request.url
NeedsFetch(text, url) == ValidatePolicyText(text) = <<>> /\ url # ""

\* The text the request goes on with.
RequestText(text, url, fetch) ==
  IF NeedsFetch(text, url) THEN fetch ELSE [ok |-> TRUE, text |-> ValidatePolicyText(text)]

\* What one request leaves: the index, the file and the record of the call.
\* calls counts the evaluator calls made, llm is what the evaluator did
\* ("-" when it was not called) and made the result it built.
Reply(c, f, k, url, ret, status, res, calls, llm, made) ==
  [cache |-> c, file |-> f,
   event |-> [op |-> "analyze", key |-> k, arg |-> NoResult, ret |-> ret, res |-> res,
              n |-> calls, status |-> status, url |-> url, llm |-> llm, made |-> made]]

\* A check that never sees a hit.
HitNever(o) == FALSE

\* if cached_result is not None
Hit(o) == o.ret = "value"

\* A failure branch that answers with a default result.
LlmFailedOpen(c, f, k, url, exc) ==
  Reply(c, f, k, url, "value", 200, CHOOSE r \in LlmResults("", 0) : r.score = 70, 1, exc, NoResult)

\* The evaluator raised exc: the request fails with an HTTPException.
LlmFailed(c, f, k, url, exc) ==
  Reply(c, f, k, url, "HTTPException", HttpStatus(exc), NoResult, 1, exc, NoResult)

\* A handler that answers a miss with the evaluator's result and stores
\* nothing.
AnalyzeWithoutStore(c, f, m, at, text, url, fetch, llm) ==
  LET got == RequestText(text, url, fetch)
  IN  IF ~got.ok \/ got.text = <<>>
      THEN Reply(c, f, "-", url, "HTTPException", 400, NoResult, 0, "-", NoResult)
      ELSE LET k == GenerateKey(got.text)
               o == GetOutcome(c, k, at)
           IN  IF Hit(o) THEN Reply(c, f, k, url, "value", 200, o.res, 0, "-", NoResult)
               ELSE IF o.ret \notin {"None", "value"}
               THEN Reply(c, f, k, url, o.ret, 500, NoResult, 0, "-", NoResult)
               ELSE IF llm.exc # "none" THEN LlmFailed(c, f, k, url, llm.exc)
               ELSE Reply(c, f, k, url, "value", 200, llm.res, 1, "ok", llm.res)

\* analyze_policy on index c, file f, medium m at time at, for a request
\* (text, url), with fetch what the url fetch would give and llm what the
\* evaluator would do.
AnalyzePolicy(c, f, m, at, text, url, fetch, llm) ==
  LET got == RequestText(text, url, fetch)
  IN  IF ~got.ok \/ got.text = <<>>
      THEN Reply(c, f, "-", url, "HTTPException", 400, NoResult, 0, "-", NoResult)
      ELSE LET k == GenerateKey(got.text)
               o == GetOutcome(c, k, at)
               c1 == IF o.evict THEN Del(c, k) ELSE c
               f1 == IF o.evict THEN SaveToFile(c1, f, m) ELSE f
           IN  IF Hit(o) THEN Reply(c1, f1, k, url, "value", 200, o.res, 0, "-", NoResult)
               ELSE IF o.ret \notin {"None", "value"}
               THEN Reply(c1, f1, k, url, o.ret, 500, NoResult, 0, "-", NoResult)
               ELSE IF llm.exc # "none" THEN LlmFailed(c1, f1, k, url, llm.exc)
               ELSE LET st == Store(c1, k, llm.res, at)
                    IN  IF st.exc # "none"
                        THEN Reply(c1, f1, k, url, st.exc, 500, NoResult, 1, "ok", llm.res)
                        ELSE Reply(st.cache, SaveToFile(st.cache, f1, m), k, url,
                                   "value", 200, llm.res, 1, "ok", llm.res)

\* Whether the request gets as far as the evaluator.
CallsLlm(c, at, text, url, fetch) ==
  LET got == RequestText(text, url, fetch)
  IN  /\ got.ok /\ got.text # <<>>
      /\ GetOutcome(c, GenerateKey(got.text), at).ret = "None"

Analyze(text, url) ==
  /\ initialized
  /\ \E fetch \in IF NeedsFetch(text, url) THEN FetchReplies ELSE {[ok |-> FALSE, text |-> <<>>]} :
     \E llm \in IF CallsLlm(memory_cache, now, text, url, fetch)
                THEN LlmOutcomes(url, now)
                ELSE {[exc |-> "Exception", res |-> NoResult]} :
       LET a == AnalyzePolicy(memory_cache, cache_file, medium, now, text, url, fetch, llm)
       IN  /\ memory_cache' = a.cache
           /\ cache_file' = a.file
           /\ event' = a.event
  /\ UNCHANGED <<initialized, now, medium, advances>>
  /\ UNCHANGED threading

NextAnalyze ==
  \/ \E text \in Texts, url \in Urls : Analyze(text, url)
  \/ \E k \in Keys : Get(k)
  \/ \E d \in ClockSteps : Advance(d)
  \/ \E m \in Media : SetMedium(m)

SpecAnalyze == Init /\ [][NextAnalyze]_vars

(***************************************************************************)
(* cache.py under threads.  A call is a sequence of steps, each one access *)
(* to the index, to _file_lock or to the file; the steps of different      *)
(* threads interleave.  The index has no lock: only the file write is      *)
(* inside _file_lock.  json.dump walks the dict it was given while other   *)
(* threads run, and raises RuntimeError if that dict has changed size.     *)
(***************************************************************************)
\* The record of a step that ends no call.
StepEvent ==
  [op |-> "step", key |-> "-", arg |-> NoResult, ret |-> "-", res |-> NoResult, n |-> -1]

\* History: a call on a key of ks loses what it was promised when the index
\* changes under that key.
Forget(u, ks) == IF u.key \in ks THEN [u EXCEPT !.expect = NoResult, !.valid = FALSE] ELSE u

\* self._memory_cache is bound to a new dict: a dump in progress goes on
\* with the dict it was given.
Detach(u, c) == IF u.pc = "dump" /\ u.live THEN [u EXCEPT !.live = FALSE, !.cur = c] ELSE u

\* The call of thread t, standing at me, ends with ret and res.  History: a
\* set that returns promises its result to the gets that start later.
Ret(t, me, ret, res) ==
  /\ thr' = [thr EXCEPT ![t] = Idle]
  /\ event' = [op |-> me.op, key |-> me.key, arg |-> me.arg, ret |-> ret, res |-> res,
               n |-> -1, thread |-> t, expect |-> me.expect]
  /\ promised' = IF me.op = "set" /\ ret = "None" /\ me.valid
                 THEN [promised EXCEPT ![me.key] = me.arg]
                 ELSE promised

\* get, line 96: if text_hash not in self._memory_cache: return None
GetCheck(t, k) ==
  /\ initialized
  /\ thr[t].pc = "idle"
  /\ LET me == [Idle EXCEPT !.op = "get", !.key = k, !.expect = promised[k]]
     IN  IF memory_cache.shape = "null" THEN Ret(t, me, "TypeError", NoResult)
         ELSE IF memory_cache.shape = "list" \/ ~Contains(memory_cache, k)
         THEN Ret(t, me, "None", NoResult)
         ELSE /\ thr' = [thr EXCEPT ![t] = [me EXCEPT !.pc = "read"]]
              /\ event' = StepEvent
              /\ UNCHANGED promised
  /\ UNCHANGED <<memory_cache, cache_file, initialized, now, medium, advances, file_lock>>

\* get, lines 99-104 and 113-118: the subscript, outside the try blocks, then
\* the checks on the record it read.
GetRead(t) ==
  /\ thr[t].pc = "read"
  /\ LET k == thr[t].key
     IN  IF ~Contains(memory_cache, k) THEN Ret(t, thr[t], "KeyError", NoResult)
         ELSE LET o == GetOutcome(memory_cache, k, now)
              IN  IF o.evict
                  THEN /\ thr' = [thr EXCEPT ![t].pc = "del"]
                       /\ event' = StepEvent
                       /\ UNCHANGED promised
                  ELSE Ret(t, thr[t], o.ret, o.res)
  /\ UNCHANGED <<memory_cache, cache_file, initialized, now, medium, advances, file_lock, called>>

\* get, line 106: del self._memory_cache[text_hash], inside the try block
\* whose except clause takes the KeyError of a key that is gone.
GetDel(t) ==
  /\ thr[t].pc = "del"
  /\ LET k == thr[t].key
     IN  IF ~Contains(memory_cache, k)
         THEN /\ Ret(t, thr[t], "None", NoResult)
              /\ UNCHANGED memory_cache
         ELSE LET expired == CheckTimestamp(memory_cache.items[k], now) = "expired"
              IN  /\ memory_cache' = Del(memory_cache, k)
                  /\ thr' = [u \in Threads |->
                               IF u = t THEN [thr[t] EXCEPT !.pc = "acquire"]
                               ELSE IF expired THEN Forget(thr[u], {k}) ELSE thr[u]]
                  /\ promised' = IF expired THEN [promised EXCEPT ![k] = NoResult] ELSE promised
                  /\ event' = StepEvent
  /\ UNCHANGED <<cache_file, initialized, now, medium, advances, file_lock, called>>

\* set, lines 128-132: the item assignment.
SetStore(t, k, r) ==
  /\ initialized
  /\ thr[t].pc = "idle"
  /\ LET me == [Idle EXCEPT !.op = "set", !.key = k, !.arg = r, !.valid = TRUE]
         st == Store(memory_cache, k, r, now)
     IN  IF st.exc # "none"
         THEN /\ Ret(t, me, st.exc, NoResult)
              /\ UNCHANGED memory_cache
         ELSE /\ memory_cache' = st.cache
              /\ thr' = [u \in Threads |->
                           IF u = t THEN [me EXCEPT !.pc = "acquire"] ELSE Forget(thr[u], {k})]
              /\ promised' = [promised EXCEPT ![k] = NoResult]
              /\ event' = StepEvent
  /\ UNCHANGED <<cache_file, initialized, now, medium, advances, file_lock>>

\* clear, line 137: self._memory_cache = {}
ClearRebind(t) ==
  /\ initialized
  /\ thr[t].pc = "idle"
  /\ memory_cache' = EmptyDict
  /\ thr' = [u \in Threads |->
               IF u = t THEN [Idle EXCEPT !.op = "clear", !.pc = "acquire"]
               ELSE Detach(Forget(thr[u], Keys), memory_cache)]
  /\ promised' = [k \in Keys |-> NoResult]
  /\ event' = StepEvent
  /\ UNCHANGED <<cache_file, initialized, now, medium, advances, file_lock>>

\* A save that does not wait for _file_lock.
AcquireAnyway(t) ==
  /\ thr[t].pc = "acquire"
  /\ file_lock' = t
  /\ thr' = [thr EXCEPT ![t].pc = "open"]
  /\ event' = StepEvent
  /\ UNCHANGED <<memory_cache, cache_file, initialized, now, medium, advances, promised, called>>

\* _save_to_file, line 65: with self._file_lock
Acquire(t) ==
  /\ thr[t].pc = "acquire"
  /\ file_lock = "free"
  /\ file_lock' = t
  /\ thr' = [thr EXCEPT ![t].pc = "open"]
  /\ event' = StepEvent
  /\ UNCHANGED <<memory_cache, cache_file, initialized, now, medium, advances, promised, called>>

\* _save_to_file, lines 67-68: open(CACHE_FILE, 'w') truncates the file, and
\* json.dump is handed the dict of this instant.  An open that fails is an
\* IOError the except clause takes.
Open(t) ==
  /\ thr[t].pc = "open"
  /\ IF medium = "readonly"
     THEN /\ Ret(t, thr[t], "None", NoResult)
          /\ file_lock' = "free"
          /\ UNCHANGED cache_file
     ELSE /\ cache_file' = FileUnparsable
          /\ thr' = [thr EXCEPT ![t].pc = "dump", ![t].snap = memory_cache, ![t].live = TRUE]
          /\ event' = StepEvent
          /\ UNCHANGED <<file_lock, promised>>
  /\ UNCHANGED <<memory_cache, initialized, now, medium, advances, called>>

\* What a dump that started on dict a and ends on the same dict, now b, can
\* have written: each record as it stood when the walk came to it.  An empty
\* dict is written as {} without a walk.
Mixes(a, b) ==
  IF Len_(a).n = 0 THEN {a}
  ELSE {[shape |-> "dict", items |-> [k \in Keys |-> IF k \in S THEN a.items[k] ELSE b.items[k]]] :
          S \in SUBSET Keys}

\* _save_to_file, lines 68-70: the walk ends and the file is closed.  The
\* dict iterator raises RuntimeError if the dict has changed size since the
\* walk began; the except clause takes IOError only.
Finish(t) ==
  /\ thr[t].pc = "dump"
  /\ file_lock' = "free"
  /\ LET a == thr[t].snap
         b == IF thr[t].live THEN memory_cache ELSE thr[t].cur
     IN  IF medium = "full"
         THEN /\ Ret(t, thr[t], "None", NoResult)
              /\ UNCHANGED cache_file
         ELSE IF Len_(a).n # 0 /\ Len_(b).n # Len_(a).n
         THEN /\ Ret(t, thr[t], "RuntimeError", NoResult)
              /\ UNCHANGED cache_file
         ELSE /\ Ret(t, thr[t], "None", NoResult)
              /\ \E out \in Mixes(a, b) : cache_file' = JsonFile(out)
  /\ UNCHANGED <<memory_cache, initialized, now, medium, advances, called>>

\* The calls a thread starts.
TGet(t, k) == GetCheck(t, k) /\ UNCHANGED called

TSet(t, k, r) == SetStore(t, k, r) /\ UNCHANGED called

TClear(t) == ClearRebind(t) /\ UNCHANGED called

\* The service starts on no file or on a file written on day 0, on day 0
\* or past the TTL of that file's record.
InitThreads ==
  /\ now \in {0, TTL + 1}
  /\ advances = 0
  /\ medium = "writable"
  /\ cache_file \in {FileMissing,
                     JsonFile([shape |-> "dict",
                               items |-> [k \in Keys |-> IF k = "k1" THEN GoodEntry ELSE Absent]])}
  /\ memory_cache = Construct(cache_file).cache
  /\ initialized = Construct(cache_file).initialized
  /\ event = Construct(cache_file).event
  /\ InitThreading

NextThreads ==
  \E t \in Threads :
    \/ \E k \in Keys : TGet(t, k)
    \/ \E k \in Keys, r \in Results : TSet(t, k, r)
    \/ TClear(t)
    \/ GetRead(t)
    \/ GetDel(t)
    \/ Acquire(t)
    \/ Open(t)
    \/ Finish(t)

SpecThreads == InitThreads /\ [][NextThreads]_vars

\* The burst: every thread calls set once, on a key of its own; gets start
\* when every set has ended.
KeyOf(t) == IF t = "t1" THEN "k1" ELSE "k2"

BurstSet(t, r) ==
  /\ t \notin called
  /\ SetStore(t, KeyOf(t), r)
  /\ called' = called \cup {t}

BurstGet(t, k) ==
  /\ called = Threads
  /\ \A u \in Threads : thr[u].pc = "idle"
  /\ GetCheck(t, k)
  /\ UNCHANGED called

NextBurst ==
  \E t \in Threads :
    \/ \E r \in Results : BurstSet(t, r)
    \/ \E k \in Keys : BurstGet(t, k)
    \/ GetRead(t)
    \/ Acquire(t)
    \/ Open(t)
    \/ Finish(t)

SpecBurst == InitThreads /\ [][NextBurst]_vars

(***************************************************************************)
(* main.py served by uvicorn: requests in flight together.                 *)
(*                                                                         *)
(* analyze_policy is a coroutine (async def, main.py:141) with no await in *)
(* its body, run by the one event loop of uvicorn.run (main.py:221): once  *)
(* the loop has entered the handler for a request it runs lines 154-216 to *)
(* the end before it enters it for another.  thr[t] is the request on      *)
(* connection t: received and waiting for the loop, or none.               *)
(***************************************************************************)
\* A request the server has received and not yet handled; twin says that
\* a request for the same normalized text was waiting together with it.
Pending(text, url, twin) ==
  [pc |-> "pending", op |-> "analyze", text |-> text, url |-> url, twin |-> twin]

\* Two request texts that give one cache key.
SameKey(a, b) ==
  /\ ValidatePolicyText(a) # <<>> /\ ValidatePolicyText(b) # <<>>
  /\ GenerateKey(ValidatePolicyText(a)) = GenerateKey(ValidatePolicyText(b))

\* A request arrives on connection t while the loop is between two handlers.
Receive(t, text, url) ==
  /\ initialized
  /\ thr[t].pc = "idle"
  /\ thr' = [u \in Threads |->
               IF u = t
               THEN Pending(text, url,
                            \E v \in Threads \ {t} :
                              thr[v].pc = "pending" /\ SameKey(thr[v].text, text))
               ELSE IF thr[u].pc = "pending" /\ SameKey(thr[u].text, text)
               THEN [thr[u] EXCEPT !.twin = TRUE]
               ELSE thr[u]]
  /\ UNCHANGED <<memory_cache, cache_file, initialized, now, medium, advances, event,
                 file_lock, promised, called>>

\* The loop runs the handler for the request of connection t, to its end.
Serve(t) ==
  /\ initialized
  /\ thr[t].pc = "pending"
  /\ LET text == thr[t].text
         url == thr[t].url
     IN  \E fetch \in IF NeedsFetch(text, url) THEN FetchReplies ELSE {[ok |-> FALSE, text |-> <<>>]} :
         \E llm \in IF CallsLlm(memory_cache, now, text, url, fetch)
                    THEN LlmOutcomes(url, now)
                    ELSE {[exc |-> "Exception", res |-> NoResult]} :
           LET a == AnalyzePolicy(memory_cache, cache_file, medium, now, text, url, fetch, llm)
           IN  /\ memory_cache' = a.cache
               /\ cache_file' = a.file
               /\ event' = a.event @@ [twin |-> thr[t].twin, thread |-> t]
  /\ thr' = [thr EXCEPT ![t] = Idle]
  /\ UNCHANGED <<initialized, now, medium, advances, file_lock, promised, called>>

NextServer ==
  \E t \in Threads :
    \/ \E text \in Texts, url \in Urls : Receive(t, text, url)
    \/ Serve(t)

SpecServer == InitThreads /\ [][NextServer]_vars

(***************************************************************************)
(* service_llm.py: the evaluator.  With no provider configured it is the   *)
(* local fallback _generate_mock_analysis, which looks at the length of    *)
(* the text and at the keywords that occur in its lowercased form.  A text *)
(* is given by the phrases that occur in it and by its length, the rest of *)
(* it being characters that form no keyword.                               *)
(***************************************************************************)
concerning_keywords ==
  {"third party", "third-party", "share", "sell", "indefinitely", "arbitration", "waive",
   "biometric", "tracking", "surveillance", "cannot control", "may modify", "without notice"}

positive_keywords ==
  {"delete", "opt out", "opt-out", "gdpr", "ccpa", "encrypted", "never share", "never sell",
   "your rights", "you can", "contact us"}

base_score == 70

\* The phrases a text of the model is made of.
Phrases ==
  {"sell", "data", "indefinitely", "third party", "third-party", "Never Share", "opt-out",
   "share arbitration waive biometric tracking surveillance cannot control may modify without notice",
   "delete opt out gdpr ccpa encrypted your rights you can contact us"}

\* Text lengths on both sides of the two thresholds.
Lengths == {999, 1000, 5000, 5001}

PolicyTexts == [has : SUBSET Phrases, len : Lengths]

\* str.lower() on a phrase.
LowerPhrase(p) == IF p = "Never Share" THEN "never share" ELSE p

\* The keywords, and the word data, that are substrings of lowercase phrase p.
Occurs(p) ==
  CASE p = "never share" -> {"never share", "share"}
    [] p = "share arbitration waive biometric tracking surveillance cannot control may modify without notice"
       -> {"share", "arbitration", "waive", "biometric", "tracking", "surveillance",
           "cannot control", "may modify", "without notice"}
    [] p = "delete opt out gdpr ccpa encrypted your rights you can contact us"
       -> {"delete", "opt out", "gdpr", "ccpa", "encrypted", "your rights", "you can", "contact us"}
    [] OTHER -> {p}

\* policy_text.lower()
TextLower(text) == [has |-> {LowerPhrase(p) : p \in text.has}, len |-> text.len]

\* keyword in text_lower
In(keyword, text_lower) == \E p \in text_lower.has : keyword \in Occurs(p)

\* An adjustment whose bonus reaches a length of 1000.
LengthAdjustTo1000(n) == IF n > 5000 THEN -10 ELSE IF n <= 1000 THEN 10 ELSE 0

\* An adjustment whose upper threshold is met at 5000.
LengthAdjustAt5000(n) == IF n >= 5000 THEN -10 ELSE IF n < 1000 THEN 10 ELSE 0

\* Lines 118-121: the adjustment for the length of the text.
LengthAdjust(n) == IF n > 5000 THEN -10 ELSE IF n < 1000 THEN 10 ELSE 0

\* max(0, min(100, score))
Clamp(n) == IF n < 0 THEN 0 ELSE IF n > 100 THEN 100 ELSE n

\* Lines 111-124: the score of the fallback.
MockScore(text) ==
  LET text_lower == TextLower(text)
      concern_count == Cardinality({k \in concerning_keywords : In(k, text_lower)})
      positive_count == Cardinality({k \in positive_keywords : In(k, text_lower)})
  IN  Clamp(base_score - concern_count * 5 + positive_count * 3 + LengthAdjust(text.len))

\* <<x>> if b, else the empty list.
Opt(b, x) == IF b THEN <<x>> ELSE <<>>

\* Lines 126-132: the summary template for the score band.
MockSummary(score) ==
  IF score >= 80 THEN "friendly" ELSE IF score >= 50 THEN "moderate" ELSE "concerns"

\* Red flags without the one for retention.
MockRedFlagsNoRetention(text) ==
  LET t == TextLower(text)
  IN  Opt(In("third party", t) \/ In("third-party", t), "third-party sharing")
      \o Opt(In("sell", t) /\ In("data", t), "selling data")

\* Lines 134-151: the red flags, in the order of the checks.
MockRedFlags(text) ==
  LET t == TextLower(text)
      concern_count == Cardinality({k \in concerning_keywords : In(k, t)})
      positive_count == Cardinality({k \in positive_keywords : In(k, t)})
  IN  Opt(In("third party", t) \/ In("third-party", t), "third-party sharing")
      \o Opt(In("sell", t) /\ In("data", t), "selling data")
      \o Opt(In("indefinitely", t), "indefinite retention")
      \o Opt(In("arbitration", t), "arbitration")
      \o Opt(In("biometric", t), "biometric")
      \o Opt(In("tracking", t), "tracking")
      \o Opt(In("without notice", t), "change without notice")
      \o Opt(concern_count > 5 /\ positive_count < 3, "limited control")

\* Lines 153-179: the action items.
MockActionItems(text, url, score) ==
  LET t == TextLower(text)
  IN  Opt(score < 70, [text |-> "review settings", url |-> "None", priority |-> "high"])
      \o Opt(In("opt out", t) \/ In("opt-out", t),
             [text |-> "opt out", url |-> IF url # "" THEN url \o "#settings" ELSE "None",
              priority |-> "medium"])
      \o Opt(score < 50, [text |-> "alternatives", url |-> "None", priority |-> "high"])
      \o Opt(score < 50, [text |-> "vpn", url |-> "None", priority |-> "medium"])
      \o Opt(In("delete", t), [text |-> "delete data", url |-> "None", priority |-> "low"])

\* _generate_mock_analysis
MockAnalysis(text, url, at) ==
  LET score == MockScore(text)
  IN  [score |-> score, summary |-> MockSummary(score), red_flags |-> MockRedFlags(text),
       user_action_items |-> MockActionItems(text, url, score),
       timestamp |-> [t |-> at, aware |-> TRUE], url |-> url]

\* The record of one evaluator call: mode is "mock" or "remote", text the
\* text given to the fallback, reply what the provider gave, ret "value" or
\* the exception raised, status the HTTP status main.py answers with.
Evaluated(mode, text, reply, url, o) ==
  [op |-> "evaluate", key |-> "-", arg |-> NoResult,
   ret |-> IF o.exc = "none" THEN "value" ELSE o.exc, res |-> o.res, n |-> -1,
   mode |-> mode, text |-> text, reply |-> reply, url |-> url,
   status |-> IF o.exc = "none" THEN 200 ELSE HttpStatus(o.exc)]

\* Every variable but event.
parked == <<memory_cache, cache_file, initialized, now, medium, advances, threading>>

\* A call of the evaluator that has not run yet.
Requested(mode, text, reply, url) ==
  [op |-> "request", mode |-> mode, text |-> text, reply |-> reply, url |-> url]

\* analyze_policy in test mode.
EvaluateMock ==
  /\ event.op = "request" /\ event.mode = "mock"
  /\ event' = Evaluated("mock", event.text, event.reply, event.url,
                        [exc |-> "none", res |-> MockAnalysis(event.text, event.url, now)])
  /\ UNCHANGED parked

\* analyze_policy with a provider, which gives event.reply.
EvaluateRemote ==
  /\ event.op = "request" /\ event.mode = "remote"
  /\ event' = Evaluated("remote", event.text, event.reply, event.url,
                        RemoteAnalyze(event.reply, event.url, now))
  /\ UNCHANGED parked

\* A service with an empty cache.
Parked ==
  /\ now = 0
  /\ advances = 0
  /\ medium = "writable"
  /\ cache_file = FileMissing
  /\ memory_cache = Construct(cache_file).cache
  /\ initialized = Construct(cache_file).initialized
  /\ InitThreading

\* One evaluator call is about to run: in test mode on any text, or with a
\* provider and any of its replies.
InitEvaluator ==
  /\ Parked
  /\ event \in {Requested("mock", text, [kind |-> "none"], url) :
                  text \in PolicyTexts, url \in Urls}
               \cup {Requested("remote", [has |-> {}, len |-> 0], p, url) :
                       p \in ProviderReplies, url \in Urls}

NextEvaluator == EvaluateMock \/ EvaluateRemote

SpecEvaluator == InitEvaluator /\ [][NextEvaluator]_vars

(***************************************************************************)
(* generate_key on pairs of texts.                                         *)
(***************************************************************************)
MaxLen == 3

\* The characters of the texts.
Chars == {"A", "a", "b", " "}

\* The texts of at most MaxLen characters.
ShortTexts == UNION {[1..n -> Chars] : n \in 0..MaxLen}

\* Two texts whose keys are asked for.
KeysAsked(a, b) == [op |-> "texts", a |-> a, b |-> b]

\* cache_manager.generate_key on each of the two texts.
GenerateKeys ==
  /\ event.op = "texts"
  /\ event' = [op |-> "generate_key", a |-> event.a, b |-> event.b,
               ka |-> GenerateKey(event.a), kb |-> GenerateKey(event.b)]
  /\ UNCHANGED parked

InitKeys == Parked /\ event \in {KeysAsked(a, b) : a \in ShortTexts, b \in ShortTexts}

NextKeys == GenerateKeys

SpecKeys == InitKeys /\ [][NextKeys]_vars

(***************************************************************************)
(* service_discovery.py: the discovery cascade.  A call of find_policy is  *)
(* a sequence of steps, one for each request it sends: the fetch of the    *)
(* front page, the probe of one common path, the search.  event holds the  *)
(* position of the call, the last reply it received and what each strategy *)
(* returned ("-" while it has not run, "" for no match).                   *)
(***************************************************************************)
MaxLinks == 2

\* self.common_paths
common_paths ==
  <<"/privacy", "/privacy-policy", "/privacy_policy", "/legal", "/legal/privacy",
    "/terms", "/terms-of-service", "/tos">>

\* self.keywords
keywords == {"privacy", "terms", "legal", "policy", "tos", "conditions"}

\* The urls find_policy is called with, as the parts urlparse tells apart:
\* "https://d", "d", "http://d/page" and "https://e".
Targets ==
  { [scheme |-> "https", host |-> "d", path |-> ""],
    [scheme |-> "", host |-> "d", path |-> ""],
    [scheme |-> "http", host |-> "d", path |-> "/page"],
    [scheme |-> "https", host |-> "e", path |-> ""] }

\* urlparse: a string without a scheme is all path.
UrlParse(u) ==
  IF u.scheme = "" THEN [netloc |-> "", path |-> u.host \o u.path]
  ELSE [netloc |-> u.host, path |-> u.path]

\* _get_domain
GetDomain(u) ==
  LET parsed == UrlParse(u)
  IN  IF parsed.netloc = "" THEN UrlParse([u EXCEPT !.scheme = "https"]).netloc
      ELSE parsed.netloc

\* base_url = f"https://{domain}"
BaseUrl(domain) == "https://" \o domain

\* An href in full.
HrefStr(h) == IF h.scheme = "" THEN h.rest ELSE h.scheme \o ":" \o h.rest

\* urljoin(base_url, href) for a base without a path: an href with a scheme
\* stands as it is, a rooted path is put after the base.
UrlJoin(base, h) ==
  IF h.scheme = "" THEN [scheme |-> "https", str |-> base \o h.rest]
  ELSE [scheme |-> h.scheme, str |-> HrefStr(h)]

\* full_url.startswith('http')
StartsWithHttp(u) == u.scheme \in {"http", "https"}

\* The <a href> elements of a front page: a link to the policy, a link to
\* something else, a mail address of the legal department, and a link whose
\* path is in capitals under a text that says nothing.
Links ==
  { [text |-> "Privacy Policy", href |-> [scheme |-> "", rest |-> "/privacy"]],
    [text |-> "About", href |-> [scheme |-> "", rest |-> "/about"]],
    [text |-> "Legal", href |-> [scheme |-> "mailto", rest |-> "legal@d"]],
    [text |-> "Read more", href |-> [scheme |-> "", rest |-> "/TERMS"]] }

\* The links of a page in document order.
LinkLists == UNION {[1..n -> Links] : n \in 0..MaxLinks}

\* str.lower() on the texts and hrefs of Links.
LowerStr(s) ==
  CASE s = "Privacy Policy" -> "privacy policy"
    [] s = "About" -> "about"
    [] s = "Legal" -> "legal"
    [] s = "Read more" -> "read more"
    [] s = "/TERMS" -> "/terms"
    [] OTHER -> s

\* The keywords that are substrings of lowercase string s.
KeywordsIn(s) ==
  CASE s = "privacy policy" -> {"privacy", "policy"}
    [] s = "/privacy" -> {"privacy"}
    [] s = "legal" -> {"legal"}
    [] s = "legal@d" -> {"legal"}
    [] s = "/terms" -> {"terms"}
    [] OTHER -> {}

\* any(k in text for k in self.keywords) or any(k in href for k in
\* self.keywords), on the lowered text and href; no scheme of Links holds a
\* keyword.
Matches(a) ==
  \/ \E k \in keywords : k \in KeywordsIn(LowerStr(a.text))
  \/ \E k \in keywords : k \in KeywordsIn(LowerStr(a.href.rest))

\* The HTTP statuses of a reply.
Statuses == {200, 203, 404}

\* What requests.get(base_url) gives: an exception or a response.
FrontReplies ==
  {[kind |-> "raise"]}
    \cup [kind : {"response"}, status_code : Statuses, links : LinkLists]

\* What requests.head(target_url) gives.
ProbeReplies == {[kind |-> "raise"]} \cup [kind : {"response"}, status_code : Statuses]

\* What DDGS().text(query, max_results=1) gives: an exception or a list of
\* results; a result is a dict that has an href or has none.
SearchReplies ==
  { [kind |-> "raise"],
    [kind |-> "results", results |-> <<>>],
    [kind |-> "results", results |-> <<[fields |-> {"title", "href"}, href |-> "https://d/found"]>>],
    [kind |-> "results", results |-> <<[fields |-> {"title", "href"}, href |-> ""]>>],
    [kind |-> "results", results |-> <<[fields |-> {"title"}, href |-> ""]>>] }

NoReply == [kind |-> "none"]

\* A scan that takes a matching link of any scheme.
RECURSIVE ScanLinksAnyScheme(_, _)
ScanLinksAnyScheme(base_url, links) ==
  IF links = <<>> THEN ""
  ELSE IF Matches(Head(links)) THEN UrlJoin(base_url, Head(links).href).str
  ELSE ScanLinksAnyScheme(base_url, Tail(links))

\* Lines 76-84: the loop over the links.
RECURSIVE ScanLinks(_, _)
ScanLinks(base_url, links) ==
  IF links = <<>> THEN ""
  ELSE LET a == Head(links)
           full_url == UrlJoin(base_url, a.href)
       IN  IF Matches(a) /\ StartsWithHttp(full_url) THEN full_url.str
           ELSE ScanLinks(base_url, Tail(links))

\* Lines 71-84: what the scan of the front page raises and finds.
Scan(base_url, front) ==
  IF front.kind = "raise" THEN [exc |-> "RequestException", match |-> ""]
  ELSE IF front.status_code = 200
  THEN [exc |-> "none", match |-> ScanLinks(base_url, front.links)]
  ELSE [exc |-> "none", match |-> ""]

\* A scan without its own handler: its exception ends _soft_discovery.
AfterScanOuter(o) ==
  IF o.exc # "none" THEN "outer" ELSE IF o.match # "" THEN "return" ELSE "probe"

\* Lines 84-88: where _soft_discovery goes after the scan; the handler at
\* lines 85-86 absorbs the scan's exception ("outer" is the handler at lines
\* 100-102).
AfterScan(o) == IF o.exc = "none" /\ o.match # "" THEN "return" ELSE "probe"

\* A probe satisfied by every 2xx status.
ProbeOkAnySuccess(r) == r.kind = "response" /\ r.status_code \in 200..299

\* Lines 92-96: the probe found the path.
ProbeOk(r) == r.kind = "response" /\ r.status_code = 200

\* A condition that nothing satisfies.
TruthyNever(m) == FALSE

\* if policy_url:
Truthy(m) == m # ""

\* A search that finds nothing.
DdgMatchNone(r) == ""

\* _search_ddg: the href of the first result; an exception, a missing href
\* among them, is absorbed at lines 112-114.
DdgMatch(r) ==
  IF r.kind = "raise" THEN ""
  ELSE IF r.results = <<>> THEN ""
  ELSE IF "href" \notin r.results[1].fields THEN ""
  ELSE r.results[1].href

\* find_policy returns m.
Return(e, m) ==
  [e EXCEPT !.pc = "done",
            !.ret = IF Truthy(m) THEN "value" ELSE "None",
            !.res = IF Truthy(m) THEN m ELSE ""]

\* _soft_discovery returned m: lines 41-47.
SoftReturn(e, m) == IF Truthy(m) THEN Return(e, m) ELSE [e EXCEPT !.pc = "search"]

\* find_policy(url) up to its first request.
FindPolicy(url) ==
  [op |-> "find_policy", pc |-> "scan", target |-> url, domain |-> GetDomain(url),
   i |-> 0, reply |-> NoReply, trace |-> <<>>, probed |-> <<>>,
   scan |-> "-", probe |-> "-", search |-> "-", ret |-> "-", res |-> ""]

\* The fetch of the front page and the scan of its links.
ScanHomepage ==
  /\ event.op = "find_policy" /\ event.pc = "scan"
  /\ \E front \in FrontReplies :
       LET o == Scan(BaseUrl(event.domain), front)
           e == [event EXCEPT !.reply = front, !.trace = Append(@, "scan"), !.scan = o.match]
           after == AfterScan(o)
       IN  event' = IF after = "return" THEN SoftReturn(e, o.match)
                    ELSE IF after = "probe" THEN [e EXCEPT !.pc = "probe", !.i = 1]
                    ELSE SoftReturn(e, "")
  /\ UNCHANGED parked

\* One turn of the loop over common_paths.
CheckPath ==
  /\ event.op = "find_policy" /\ event.pc = "probe"
  /\ \E r \in ProbeReplies :
       LET path == common_paths[event.i]
           target_url == UrlJoin(BaseUrl(event.domain), [scheme |-> "", rest |-> path]).str
           e == [event EXCEPT !.reply = r, !.probed = Append(@, path),
                              !.trace = IF event.i = 1 THEN Append(@, "probe") ELSE @]
       IN  event' = IF ProbeOk(r) THEN SoftReturn([e EXCEPT !.probe = target_url], target_url)
                    ELSE IF event.i < Len(common_paths) THEN [e EXCEPT !.i = @ + 1]
                    ELSE SoftReturn([e EXCEPT !.probe = ""], "")
  /\ UNCHANGED parked

\* _search_ddg and the end of find_policy.
SearchDdg ==
  /\ event.op = "find_policy" /\ event.pc = "search"
  /\ \E r \in SearchReplies :
       LET m == DdgMatch(r)
       IN  event' = Return([event EXCEPT !.reply = r, !.trace = Append(@, "search"),
                                         !.search = m], m)
  /\ UNCHANGED parked

InitResolve == Parked /\ event \in {FindPolicy(url) : url \in Targets}

NextResolve == ScanHomepage \/ CheckPath \/ SearchDdg

SpecResolve == InitResolve /\ [][NextResolve]_vars

(***************************************************************************)
(* Vocabulary of the properties.                                           *)
(***************************************************************************)
Raised(e) == e.ret \in Exceptions

IsDict(c) == c.shape = "dict"

\* Index c holds under k a record with a well-formed UTC timestamp.
Stamped(c, k) ==
  /\ IsDict(c)
  /\ c.items[k].shape = "object"
  /\ "timestamp" \in c.items[k].fields
  /\ c.items[k].timestamp.type = "str"
  /\ c.items[k].timestamp.iso
  /\ c.items[k].timestamp.aware

\* now - storedAt of a stamped record.
Age(c, k) == now - c.items[k].timestamp.t

\* The record under k carries the payload of valid result r.
Carries(c, k, r) ==
  /\ "result" \in c.items[k].fields
  /\ c.items[k].result = ModelDump(r)

\* Every key but k has the same record in c and in d.
SameOthers(c, d, k) ==
  /\ IsDict(c) /\ IsDict(d)
  /\ \A j \in Keys \ {k} : c.items[j] = d.items[j]

\* File f holds JSON text that is a key-to-record mapping.
IsImage(f) == f.content = "json" /\ IsDict(f.value)

\* File f holds no record under any key.
NoRecords(f) == \A k \in Keys : ~(IsImage(f) /\ Contains(f.value, k))

\* C1: set(k, r) followed immediately by get(k) returns a result equal to r
\* in all fields.
C1_RoundTrip ==
  [][(event.op = "set" /\ event.ret = "None"
      /\ event'.op = "get" /\ event'.key = event.key)
     => (event'.ret = "value" /\ event'.res = event.arg)]_vars

C1_Witness ==
  /\ event.op = "get" /\ event.ret = "value"
  /\ Stamped(memory_cache, event.key) /\ Age(memory_cache, event.key) = 0
  /\ event.res.timestamp.aware /\ event.res.timestamp.t # now

\* C2: get(k) returns a result only if the record's age is at most TTL; a
\* record whose age exceeds TTL is absent on get, and a record written by set
\* whose age is at most TTL is present.
C2_TtlValidity ==
  [][\A k \in Keys :
       (event'.op = "get" /\ event'.key = k)
       => /\ event'.ret = "value"
             => (Stamped(memory_cache, k) /\ Age(memory_cache, k) <= TTL)
          /\ (Stamped(memory_cache, k) /\ Age(memory_cache, k) > TTL)
             => event'.ret = "None"
          /\ \A r \in Results :
               (Stamped(memory_cache, k) /\ Carries(memory_cache, k, r)
                /\ Age(memory_cache, k) <= TTL)
               => (event'.ret = "value" /\ event'.res = r)]_vars

\* A get that hit a record exactly TTL old.
C2_Witness ==
  /\ event.op = "get" /\ event.ret = "value"
  /\ Stamped(memory_cache, event.key) /\ Age(memory_cache, event.key) = TTL

\* A get that missed because the record was TTL + 1 old: nothing else was
\* wrong with the index, and the key is gone.
C2_WitnessExpired ==
  /\ event.op = "get" /\ event.ret = "None" /\ now = TTL + 1
  /\ IsDict(memory_cache) /\ ~Contains(memory_cache, event.key)
  /\ IsImage(cache_file) /\ ~Contains(cache_file.value, event.key)
  /\ \E j \in Keys : Stamped(memory_cache, j) /\ Age(memory_cache, j) = TTL

\* C3 as claimed: when get(k) finds a record older than TTL, k has been
\* removed from the index and the file no longer holds k when get returns
\* absent; all other records are as they were.
C3_EvictionAlwaysResyncs ==
  [][\A k \in Keys :
       (event'.op = "get" /\ event'.key = k
        /\ Stamped(memory_cache, k) /\ Age(memory_cache, k) > TTL)
       => /\ event'.ret = "None"
          /\ ~Contains(memory_cache', k)
          /\ SameOthers(memory_cache, memory_cache', k)
          /\ ~(IsImage(cache_file') /\ Contains(cache_file'.value, k))]_vars

\* C3 amended: the same, the file being rewritten with the index get leaves
\* when the medium is writable.
C3_Eviction ==
  [][\A k \in Keys :
       (event'.op = "get" /\ event'.key = k
        /\ Stamped(memory_cache, k) /\ Age(memory_cache, k) > TTL)
       => /\ event'.ret = "None"
          /\ ~Contains(memory_cache', k)
          /\ SameOthers(memory_cache, memory_cache', k)
          /\ medium = "writable" => cache_file' = JsonFile(memory_cache')]_vars

\* An eviction that left another record in the index and in the file.
C3_Witness ==
  /\ event.op = "get" /\ event.ret = "None" /\ medium = "writable"
  /\ IsDict(memory_cache) /\ ~Contains(memory_cache, event.key)
  /\ cache_file = JsonFile(memory_cache)
  /\ \E j \in Keys : Stamped(memory_cache, j) /\ Age(memory_cache, j) > TTL

\* C4 as claimed: get(k) on a record that is corrupt in any way returns
\* absent and raises nothing; a record with an unknown extra field is read
\* normally.
C4_CorruptIsMiss ==
  (event.op = "get" /\ IsDict(memory_cache))
  => /\ memory_cache.items[event.key] \in CorruptEntries => event.ret = "None"
     /\ (memory_cache.items[event.key] = GoodEntry /\ Age(memory_cache, event.key) <= TTL)
        => (event.ret = "value" /\ event.res = OldResult)

\* C5 as claimed: whatever the file holds that is no well-formed cache image,
\* construction succeeds with an empty index, and the calls that follow
\* behave as on an empty cache.
C5_StartupNeverFails ==
  [][(event.op = "init" /\ ~IsImage(cache_file))
     => /\ event.ret = "None" /\ initialized /\ memory_cache = EmptyDict
        /\ event'.op = "get" => event'.ret = "None"
        /\ event'.op = "size" => (event'.ret = "value" /\ event'.n = 0)
        /\ event'.op \in {"set", "clear"} => event'.ret = "None"]_vars

\* What a reader loads from the file is the index.
Synced ==
  /\ LoadFromFile(cache_file).exc = "none"
  /\ LoadFromFile(cache_file).cache = memory_cache

\* C6: on a writable medium the file equals the index whenever a call has
\* returned: it does after construction, a call that returns keeps it so, and
\* a call that changed the index has dumped the index it left.
C6_FlushBeforeReturn ==
  [][/\ (event'.op = "init" /\ event'.ret = "None") => Synced'
     /\ (medium = "writable" /\ event'.op \in {"get", "set", "clear"} /\ ~Raised(event'))
        => /\ Synced => Synced'
           /\ memory_cache' # memory_cache => cache_file' = JsonFile(memory_cache')]_vars

\* A set has returned with both keys in the index and in the file.
C6_Witness ==
  /\ event.op = "set" /\ event.ret = "None" /\ medium = "writable"
  /\ IsDict(memory_cache) /\ \A k \in Keys : Contains(memory_cache, k)
  /\ cache_file = JsonFile(memory_cache)

\* The file holds under k the record set(k, r) wrote, whenever that was.
FileHolds(k, r) ==
  /\ IsImage(cache_file)
  /\ Stamped(cache_file.value, k)
  /\ cache_file.value.items[k] = NewEntry(k, r, cache_file.value.items[k].timestamp.t)

\* C7: a set(k, r) that returned on a writable medium has left its record
\* in the file; a get(k) on the instance constructed from a file holding that
\* record returns r if the record's age, counted from the storedAt in the
\* file, is at most TTL, and absent if it is more.
C7_Persistence ==
  [][\A k \in Keys, r \in Results :
       /\ (event'.op = "set" /\ event'.key = k /\ event'.arg = r
           /\ event'.ret = "None" /\ medium = "writable")
          => (FileHolds(k, r)' /\ cache_file'.value.items[k].timestamp.t = now)
       /\ (event.op = "init" /\ event.ret = "None" /\ FileHolds(k, r)
           /\ event'.op = "get" /\ event'.key = k)
          => IF now - cache_file.value.items[k].timestamp.t <= TTL
             THEN event'.ret = "value" /\ event'.res = r
             ELSE event'.ret = "None"]_vars

\* The process has restarted on a file holding a record set wrote TTL ago.
C7_Witness ==
  /\ event.op = "init" /\ event.ret = "None"
  /\ \E k \in Keys, r \in Results :
       /\ FileHolds(k, r)
       /\ Stamped(memory_cache, k) /\ Age(memory_cache, k) = TTL

\* C8: after set(k, r) the record under k holds exactly r and storedAt = the
\* time of the set, with nothing of the record it replaces; the records under
\* other keys are unchanged; a get(k) that follows returns r.
C8_SetOverwrites ==
  [][\A k \in Keys, r \in Results :
       /\ (event'.op = "set" /\ event'.key = k /\ event'.arg = r /\ event'.ret = "None")
          => /\ Stamped(memory_cache', k)
             /\ memory_cache'.items[k].timestamp.t = now
             /\ memory_cache'.items[k].fields = {"result", "timestamp", "text_hash"}
             /\ Validates(memory_cache'.items[k].result)
             /\ AnalysisResult(memory_cache'.items[k].result) = r
             /\ SameOthers(memory_cache, memory_cache', k)
       /\ (event.op = "set" /\ event.key = k /\ event.arg = r /\ event.ret = "None"
           /\ event'.op = "get" /\ event'.key = k)
          => (event'.ret = "value" /\ event'.res = r)]_vars

\* A set has returned after the TTL of a record under another key ran out,
\* with a result whose own timestamp is not the time of the set.
C8_Witness ==
  /\ event.op = "set" /\ event.ret = "None"
  /\ event.arg.timestamp.t # now
  /\ Stamped(memory_cache, event.key) /\ Age(memory_cache, event.key) = 0
  /\ \E j \in Keys \ {event.key} : Stamped(memory_cache, j) /\ Age(memory_cache, j) > TTL

\* C9 as claimed: a set on a medium that cannot be written returns normally,
\* stores the record in the index and leaves the file as it was.
C9_UnwritableSet ==
  [][\A k \in Keys, r \in Results :
       (event'.op = "set" /\ event'.key = k /\ event'.arg = r /\ medium # "writable")
       => /\ event'.ret = "None"
          /\ Stamped(memory_cache', k) /\ Carries(memory_cache', k, r)
          /\ cache_file' = cache_file]_vars

\* C10 as claimed: after clear() the index is empty, size() is 0, get(k) is
\* absent, the file holds no record and a restart yields an empty cache.
C10_ClearAlwaysPersists ==
  [][/\ event'.op = "clear"
        => (event'.ret = "None" /\ memory_cache' = EmptyDict
            /\ NoRecords(cache_file'))
     /\ event.op = "clear"
        => /\ event'.op = "size" => (event'.ret = "value" /\ event'.n = 0)
           /\ event'.op = "get" => event'.ret = "None"
           /\ event'.op = "init" => (event'.ret = "None" /\ memory_cache' = EmptyDict)]_vars

\* C10 amended: the same, the file holding the empty mapping, and a restart
\* yielding an empty cache, when the medium is writable.
C10_Clear ==
  [][/\ event'.op = "clear"
        => /\ event'.ret = "None" /\ memory_cache' = EmptyDict
           /\ medium = "writable" => cache_file' = JsonFile(EmptyDict)
     /\ event.op = "clear"
        => /\ event'.op = "size" => (event'.ret = "value" /\ event'.n = 0)
           /\ event'.op = "get" => event'.ret = "None"
           /\ (event'.op = "init" /\ medium = "writable")
              => (event'.ret = "None" /\ memory_cache' = EmptyDict)]_vars

\* A clear has returned on a writable medium after time has passed.
C10_Witness ==
  /\ event.op = "clear" /\ medium = "writable" /\ now > 0
  /\ memory_cache = EmptyDict /\ cache_file = JsonFile(EmptyDict)

\* The number of keys of index c.
NumKeys(c) == Cardinality({k \in Keys : IsDict(c) /\ Contains(c, k)})

\* C11: the value size() returns is the number of keys in the index, with
\* the records whose TTL has run out and that no get has touched, those
\* loaded at startup included; a set that returns adds one to it if its key
\* was not in the index and leaves it as it was if the key was there.
C11_SizeRawCount ==
  [][/\ (event'.op = "size" /\ event'.ret = "value") => event'.n = NumKeys(memory_cache)
     /\ \A k \in Keys :
          (event'.op = "set" /\ event'.key = k /\ event'.ret = "None")
          => NumKeys(memory_cache') =
               NumKeys(memory_cache) + (IF Contains(memory_cache, k) THEN 0 ELSE 1)]_vars

\* size() has returned 2 with a record loaded at startup whose TTL has run out.
C11_Witness ==
  /\ event.op = "size" /\ event.ret = "value" /\ event.n = 2
  /\ IsDict(memory_cache) /\ memory_cache.items["k1"] = GoodEntry
  /\ Age(memory_cache, "k1") > TTL

\* C12 as claimed: the value of size() after get(k) is its value before,
\* also when the get evicts a record.
C12_SizeUnaffectedByGet ==
  [][event'.op = "get" => Len_(memory_cache') = Len_(memory_cache)]_vars

\* C12 amended: the value of size() after get(k) is its value before, less
\* one when the get found a record older than TTL under k.
C12_SizeAfterGet ==
  [][\A k \in Keys :
       (event'.op = "get" /\ event'.key = k)
       => /\ Len_(memory_cache').exc = Len_(memory_cache).exc
          /\ Len_(memory_cache').n =
               Len_(memory_cache).n
               - (IF Stamped(memory_cache, k) /\ Age(memory_cache, k) > TTL THEN 1 ELSE 0)]_vars

\* A get has evicted one of two records.
C12_Witness ==
  /\ event.op = "get" /\ event.ret = "None"
  /\ IsDict(memory_cache) /\ ~Contains(memory_cache, event.key)
  /\ NumKeys(memory_cache) = 1 /\ now > TTL
  /\ IsImage(cache_file) /\ cache_file.value = memory_cache

\* The valid results the model can hold.
KnownResults ==
  Results \cup UNION {LlmResults(u, t) : u \in Urls, t \in 0..(MaxAdvance * TTL)}

\* C17: an analyze that finds under derive(text) a record within TTL carrying
\* a valid result returns that result as stored, url and timestamp included,
\* and calls the evaluator zero times; an analyze right after an analyze that
\* returned a result for the same key returns the same result without an
\* evaluator call.
C17_HitShortCircuits ==
  [][/\ \A k \in Keys :
          (/\ event'.op = "analyze" /\ event'.key = k
           /\ Stamped(memory_cache, k) /\ Age(memory_cache, k) <= TTL
           /\ \E r \in KnownResults : Carries(memory_cache, k, r))
          => (/\ event'.ret = "value" /\ event'.n = 0
              /\ Carries(memory_cache, k, event'.res))
     /\ (/\ event.op = "analyze" /\ event.ret = "value"
         /\ event'.op = "analyze" /\ event'.key = event.key)
        => (event'.ret = "value" /\ event'.res = event.res /\ event'.n = 0)]_vars

\* An analyze has returned, with no evaluator call, a result an earlier
\* request built for another url on an earlier day.
C17_Witness ==
  /\ event.op = "analyze" /\ event.ret = "value" /\ event.n = 0
  /\ event.res.score = 20
  /\ event.res.url # event.url
  /\ event.res.timestamp.t < now

\* C18: a get or an analyze that returns a stored result, and a get for a
\* key the index does not hold, leave the index and the file as they were.
C18_HitMutatesNothing ==
  [][(\/ (event'.op \in {"get", "analyze"} /\ event'.ret = "value" /\ event'.n # 1)
      \/ (event'.op = "get" /\ IsDict(memory_cache) /\ ~Contains(memory_cache, event'.key)))
     => (memory_cache' = memory_cache /\ cache_file' = cache_file)]_vars

\* An analyze has hit a record on its last day of validity, on a writable
\* medium whose file a dump would have changed.
C18_Witness ==
  /\ event.op = "analyze" /\ event.ret = "value" /\ event.n = 0
  /\ medium = "writable" /\ ~Synced
  /\ Stamped(memory_cache, event.key) /\ Age(memory_cache, event.key) = TTL

\* C19 as claimed: an analyze whose get misses and whose evaluator call
\* succeeds with r has called the evaluator once, has stored r under the key,
\* returns r, and a get on the key right afterwards returns r.
C19_MissThenWriteBack ==
  [][/\ (event'.op = "analyze" /\ event'.llm = "ok")
        => (/\ event'.n = 1 /\ event'.ret = "value" /\ event'.res = event'.made
            /\ IsDict(memory_cache') /\ Carries(memory_cache', event'.key, event'.made))
     /\ (event.op = "analyze" /\ event.llm = "ok" /\ event'.op = "get" /\ event'.key = event.key)
        => (event'.ret = "value" /\ event'.res = event.made)]_vars

\* C20: an analyze whose evaluator call fails ends with an HTTP error and no
\* result after one evaluator call; every record of the index and of the
\* file after it was in the index before it.
C20_FailurePropagates ==
  [][(event'.op = "analyze" /\ event'.llm \in LlmFailures)
     => (/\ event'.ret = "HTTPException" /\ event'.status \in {400, 500, 503}
         /\ event'.res = NoResult /\ event'.n = 1
         /\ \A k \in Keys :
              /\ (IsDict(memory_cache') /\ Contains(memory_cache', k))
                 => (IsDict(memory_cache) /\ memory_cache'.items[k] = memory_cache.items[k])
              /\ (cache_file' # cache_file /\ IsImage(cache_file') /\ Contains(cache_file'.value, k))
                 => (IsDict(memory_cache) /\ cache_file'.value.items[k] = memory_cache.items[k]))]_vars

\* An analyze has failed with status 500 past the TTL of the startup record,
\* which the index has dropped and the read-only file still holds.
C20_Witness ==
  /\ event.op = "analyze" /\ event.llm = "Exception" /\ event.status = 500
  /\ now > TTL /\ medium = "readonly"
  /\ IsDict(memory_cache) /\ ~Contains(memory_cache, "k1")
  /\ IsImage(cache_file) /\ cache_file.value.items["k1"] = GoodEntry

\* No thread is in a call.
Quiet == \A t \in Threads : thr[t].pc = "idle"

\* C13 as claimed: in a burst of sets on distinct keys, one per thread,
\* every set returns normally, every get started after the sets have ended
\* returns the result stored under its key, and once the burst is over the
\* file parses.
C13_Burst ==
  /\ event.op = "set" => event.ret = "None"
  /\ event.op = "get"
     => (/\ event.ret = "value"
         /\ event.expect # NoResult => event.res = event.expect)
  /\ (called = Threads /\ Quiet) => IsImage(cache_file)

\* C14 as claimed: a get(k) that starts after set(k, r) has returned, with
\* no store under k, no clear and no eviction of an expired record under k
\* since that set's store, returns r.
C14_ReadYourWrites ==
  (event.op = "get" /\ event.expect # NoResult)
  => (event.ret = "value" /\ event.res = event.expect)

\* C15 as claimed: no get, set or clear of any thread ends with an
\* exception, and a get returns absent or a complete result.
C15_NoException ==
  /\ event.op \in {"get", "set", "clear"} => ~Raised(event)
  /\ event.op = "get" => (event.ret = "None" \/ (event.ret = "value" /\ event.res \in KnownResults))

\* At most one thread is between opening and closing the file.
OneWriter == Cardinality({t \in Threads : thr[t].pc = "dump"}) <= 1

\* C16 as claimed: at most one thread at a time has the file open for
\* writing, the index does not change while a thread serializes it, and a
\* dump that completes has written the index as it stood when the dump began.
C16_ExclusiveSnapshots ==
  [][/\ OneWriter
     /\ (\E t \in Threads : thr[t].pc = "dump" /\ thr[t].live) => memory_cache' = memory_cache
     /\ \A t \in Threads :
          (thr[t].pc = "dump" /\ thr'[t].pc = "idle" /\ event'.ret = "None")
          => cache_file' = JsonFile(thr[t].snap)]_vars

\* C21 as claimed: an evaluator call that cannot reach the provider fails
\* towards the caller with status 503, and one whose reply cannot be made a
\* result fails with status 500, so that the two are told apart and neither
\* is reported as invalid input.
C21_TypedErrors ==
  (event.op = "evaluate" /\ event.mode = "remote")
  => /\ event.reply.kind = "unreachable" => event.status = 503
     /\ (event.reply.kind # "unreachable" /\ event.ret # "value") => event.status = 500

\* The keywords that occur in the lowercased text.
Found(text) == UNION {Occurs(LowerPhrase(p)) : p \in text.has}

\* C30: the fallback's score is 70, less 5 for each concerning term found in
\* the lowercased text, plus 3 for each reassuring term found, less 10 for a
\* length above 5000 or plus 10 for a length below 1000, brought back into
\* 0..100.
C30_FallbackScore ==
  (event.op = "evaluate" /\ event.mode = "mock")
  => LET concerning == Cardinality(concerning_keywords \cap Found(event.text))
         reassuring == Cardinality(positive_keywords \cap Found(event.text))
         adjustment == IF event.text.len > 5000 THEN -10
                       ELSE IF event.text.len < 1000 THEN 10 ELSE 0
         raw == 70 - 5 * concerning + 3 * reassuring + adjustment
     IN  /\ raw < 0 => event.res.score = 0
         /\ raw > 100 => event.res.score = 100
         /\ (0 <= raw /\ raw <= 100) => event.res.score = raw

\* The fallback has scored a text of 5000 characters holding three
\* concerning terms and two reassuring ones: 70 - 15 + 6 + 0.
C30_Witness ==
  /\ event.op = "evaluate" /\ event.mode = "mock"
  /\ event.text.len = 5000
  /\ event.text.has = {"sell", "third party", "Never Share", "opt-out"}
  /\ event.res.score = 61

\* C22: a request whose text is empty or only whitespace, with or without a
\* url, is rejected: it ends in an HTTPException, reads no cache entry, calls
\* the evaluator not once and leaves the index and the file as they were.
C22_EmptyTextRejected ==
  [][\A text \in Texts, url \in Urls :
       (Strip(text) = <<>> /\ Analyze(text, url))
       => /\ event'.ret = "HTTPException"
          /\ event'.key = "-"
          /\ event'.n = 0
          /\ memory_cache' = memory_cache
          /\ cache_file' = cache_file]_vars

\* C23: find_policy invokes the scan, then the probing, then the search, and
\* a later one only when each earlier one has returned no match: after a
\* match of the scan no path is probed and nothing is searched, after a match
\* of the probing nothing is searched.
C23_ShortCircuit ==
  event.op = "find_policy"
  => /\ event.trace \in {<<>>, <<"scan">>, <<"scan", "probe">>, <<"scan", "probe", "search">>}
     /\ event.probed # <<>> => event.scan = ""
     /\ Len(event.trace) = 3 => (event.scan = "" /\ event.probe = "")
     /\ event.scan \notin {"-", ""}
        => (event.pc = "done" /\ event.probed = <<>> /\ event.search = "-")
     /\ event.probe \notin {"-", ""} => (event.pc = "done" /\ event.search = "-")

\* The scan matched and find_policy returned with nothing else invoked.
C23_Witness ==
  /\ event.op = "find_policy" /\ event.pc = "done"
  /\ event.trace = <<"scan">> /\ event.ret = "value"

\* C24: find_policy returns the match of the first of scan, probing and
\* search that has one: the search's first href when the two before it
\* matched nothing, and None only when none of the three matched.
C24_EarliestMatch ==
  (event.op = "find_policy" /\ event.pc = "done")
  => IF event.scan \notin {"-", ""} THEN event.ret = "value" /\ event.res = event.scan
     ELSE IF event.probe \notin {"-", ""} THEN event.ret = "value" /\ event.res = event.probe
     ELSE IF /\ event.reply.kind = "results" /\ event.reply.results # <<>>
             /\ "href" \in event.reply.results[1].fields
             /\ event.reply.results[1].href # ""
     THEN event.ret = "value" /\ event.res = event.reply.results[1].href
     ELSE event.ret = "None"

\* Scan and probing matched nothing and the search's href was returned.
C24_Witness ==
  /\ event.op = "find_policy" /\ event.pc = "done"
  /\ event.scan = "" /\ event.probe = "" /\ Len(event.probed) = Len(common_paths)
  /\ event.ret = "value" /\ event.res = "https://d/found"

\* C25: a request that raises inside a strategy is no match of that strategy
\* and the cascade goes on: after the scan to the first path, after a probe
\* to the next path or, from the last, to the search, after the search to
\* the return of None; find_policy raises nothing.
C25_AbsorbsFailures ==
  [][event.op = "find_policy"
     => /\ event'.ret \in {"-", "value", "None"}
        /\ (\/ event'.reply.kind = "raise"
            \/ /\ event'.reply.kind = "results" /\ event'.reply.results # <<>>
               /\ "href" \notin event'.reply.results[1].fields)
           => CASE event.pc = "scan"
                     -> event'.pc = "probe" /\ event'.i = 1 /\ event'.scan = ""
                [] event.pc = "probe"
                     -> IF event.i < Len(common_paths)
                        THEN event'.pc = "probe" /\ event'.i = event.i + 1
                        ELSE event'.pc = "search" /\ event'.probe = ""
                [] event.pc = "search" -> event'.pc = "done" /\ event'.ret = "None"
                [] OTHER -> FALSE]_vars

\* Every strategy ran, the search raised, and None was returned.
C25_Witness ==
  /\ event.op = "find_policy" /\ event.pc = "done"
  /\ event.trace = <<"scan", "probe", "search">> /\ Len(event.probed) = Len(common_paths)
  /\ event.reply.kind = "raise" /\ event.ret = "None"

\* C26 as stated: a probe that responds with a success status ends the
\* probing and its url is the result.
C26_FirstSuccessStatus ==
  [][(/\ event.op = "find_policy" /\ event.pc = "probe"
      /\ event'.reply.kind = "response" /\ event'.reply.status_code \in 200..299)
     => /\ event'.pc = "done"
        /\ event'.res = BaseUrl(event.domain) \o common_paths[event.i]]_vars

\* C26: the common paths are probed in the order of the list, each once; a
\* probe answered with status 200 ends the probing and the result is the
\* https address of the target's domain followed by that path; after any
\* other answer or an exception the next path is probed and, after the last,
\* the search follows.
C26_FirstOkPath ==
  [][(event.op = "find_policy" /\ event.pc = "probe")
     => LET n == Len(event.probed) + 1
        IN  /\ event'.probed = SubSeq(common_paths, 1, n)
            /\ IF event'.reply.kind = "response" /\ event'.reply.status_code = 200
               THEN /\ event'.pc = "done" /\ event'.ret = "value"
                    /\ event'.res = "https://" \o event.target.host \o common_paths[n]
               ELSE IF n < Len(common_paths) THEN event'.pc = "probe" /\ event'.res = ""
               ELSE event'.pc = "search" /\ event'.probe = ""]_vars

\* For the target http://d/page the fourth path was the first to answer 200.
C26_Witness ==
  /\ event.op = "find_policy" /\ event.pc = "done"
  /\ event.target = [scheme |-> "http", host |-> "d", path |-> "/page"]
  /\ event.probed = <<"/privacy", "/privacy-policy", "/privacy_policy", "/legal">>
  /\ event.res = "https://d/legal"

\* C27 as stated: from a front page fetched with a success status the scan
\* returns the first link whose text or href holds a keyword, resolved
\* against the base.
C27_FirstKeywordLink ==
  [][(/\ event.op = "find_policy" /\ event.pc = "scan"
      /\ event'.reply.kind = "response" /\ event'.reply.status_code \in 200..299)
     => LET links == event'.reply.links
            hits == {j \in 1..Len(links) : Matches(links[j])}
        IN  IF hits # {}
            THEN LET first == CHOOSE j \in hits : \A h \in hits : j <= h
                 IN  /\ event'.pc = "done"
                     /\ event'.res = UrlJoin(BaseUrl(event.domain), links[first].href).str
            ELSE event'.pc = "probe"]_vars

\* C27: from a front page answered with status 200 the scan returns the
\* first link in document order whose text or href holds a keyword in any
\* case and whose address, resolved against the https address of the
\* target's domain, begins with http; on an exception, another status or no
\* such link it returns nothing and the probing starts at the first path.
C27_FirstHttpKeywordLink ==
  [][(event.op = "find_policy" /\ event.pc = "scan")
     => LET r == event'.reply
            links == IF r.kind = "response" /\ r.status_code = 200 THEN r.links ELSE <<>>
            full(j) == UrlJoin("https://" \o event.target.host, links[j].href)
            hits == {j \in 1..Len(links) : Matches(links[j]) /\ full(j).scheme \in {"http", "https"}}
        IN  IF hits # {}
            THEN LET first == CHOOSE j \in hits : \A h \in hits : j <= h
                 IN  /\ event'.pc = "done" /\ event'.ret = "value"
                     /\ event'.res = full(first).str
            ELSE event'.pc = "probe" /\ event'.i = 1 /\ event'.scan = ""]_vars

\* The page's first link was a mail address under the text Legal and the
\* scan returned the second, matched by its href in capitals.
C27_Witness ==
  /\ event.op = "find_policy" /\ event.pc = "done" /\ event.trace = <<"scan">>
  /\ event.reply.kind = "response" /\ Len(event.reply.links) = 2
  /\ event.reply.links[1].href.scheme = "mailto"
  /\ event.res = "https://d/TERMS"

\* Text s without the whitespace before its first and after its last other
\* character, in lowercase.
Normalized(s) ==
  LET inked == {i \in 1..Len(s) : s[i] # " "}
  IN  IF inked = {} THEN <<>>
      ELSE LET lo == CHOOSE i \in inked : \A j \in inked : i <= j
               hi == CHOOSE i \in inked : \A j \in inked : j <= i
           IN  [i \in 1..(hi - lo + 1) |-> IF s[lo + i - 1] = "A" THEN "a" ELSE s[lo + i - 1]]

\* C28: two texts get the same key exactly when they are equal after trimming
\* the surrounding whitespace and lowercasing: whitespace inside a text
\* tells keys apart.
C28_KeyNormalization ==
  event.op = "generate_key"
  => (event.ka = event.kb <=> Normalized(event.a) = Normalized(event.b))

\* " Ab" and "ab " got the same key.
C28_Witness ==
  /\ event.op = "generate_key"
  /\ event.a = <<" ", "A", "b">> /\ event.b = <<"a", "b", " ">>
  /\ event.ka = event.kb

\* A record of the index that holds a result object.
HoldsResult(e) == e.shape = "object" /\ "result" \in e.fields /\ e.result.type = "dict"

\* C29: a result that get or analyze returns has a score from 0 to 100, and
\* so has every record a call puts into the index; a score outside the range
\* that the evaluator replied or the file held is neither returned nor put
\* into a record, as it is or clamped.
C29_ScoreInRange ==
  [][/\ (event'.op \in {"get", "analyze"} /\ event'.ret = "value")
        => (0 <= event'.res.score /\ event'.res.score <= 100)
     /\ memory_cache'.shape = "dict"
        => \A k \in Keys :
             (HoldsResult(memory_cache'.items[k])
              /\ (memory_cache.shape # "dict" \/ memory_cache'.items[k] # memory_cache.items[k]))
             => /\ 0 <= memory_cache'.items[k].result.score
                /\ memory_cache'.items[k].result.score <= 100]_vars

\* get answered None on a record that the file brought with a score of 101.
C29_Witness ==
  /\ event.op = "get" /\ event.key = "k1" /\ event.ret = "None"
  /\ memory_cache.shape = "dict" /\ HoldsResult(memory_cache.items["k1"])
  /\ memory_cache.items["k1"].result.score = 101

\* The text holds sell, data and indefinitely and no reassuring term.
Concerning(text) ==
  /\ {"sell", "data", "indefinitely"} \subseteq Found(text)
  /\ positive_keywords \cap Found(text) = {}

\* C31: for a text that holds sell, data and indefinitely and no reassuring
\* term the fallback's score is at most 70 and its red flags include the one
\* for selling data and the one for retention.
C31_ConcerningText ==
  (event.op = "evaluate" /\ event.mode = "mock" /\ Concerning(event.text))
  => /\ event.res.score <= 70
     /\ \E i \in 1..Len(event.res.red_flags) : event.res.red_flags[i] = "selling data"
     /\ \E i \in 1..Len(event.res.red_flags) : event.res.red_flags[i] = "indefinite retention"

\* A text of 999 characters with the three terms and nothing else got 70
\* and the two flags.
C31_Witness ==
  /\ event.op = "evaluate" /\ event.mode = "mock"
  /\ event.text = [has |-> {"sell", "data", "indefinitely"}, len |-> 999]
  /\ event.res.score = 70
  /\ event.res.red_flags = <<"selling data", "indefinite retention">>

\* C32 as stated: such a text scores below 70 at every length.
C32_StrictlyBelowBase ==
  (event.op = "evaluate" /\ event.mode = "mock" /\ Concerning(event.text))
  => event.res.score < 70

\* C32: such a text scores below 70 when it has 1000 characters or more, and
\* at most 60 from there on; a shorter one reaches 70 only when sell and
\* indefinitely are the only concerning terms in it.
C32_BelowBaseFrom1000 ==
  (event.op = "evaluate" /\ event.mode = "mock" /\ Concerning(event.text))
  => /\ event.text.len >= 1000 => event.res.score <= 60
     /\ event.text.len < 1000
        => (event.res.score = 70
            <=> concerning_keywords \cap Found(event.text) = {"sell", "indefinitely"})

\* A text of 1000 characters with the three terms got 60.
C32_Witness ==
  /\ event.op = "evaluate" /\ event.mode = "mock"
  /\ event.text = [has |-> {"sell", "data", "indefinitely"}, len |-> 1000]
  /\ event.res.score = 60

\* A reply that is no JSON, lacks a required field, or has a score or a
\* priority that the result model refuses.
Malformed(p) ==
  \/ p.kind = "text"
  \/ /\ p.kind = "json"
     /\ \/ ~({"score", "summary", "red_flags", "user_action_items"} \subseteq p.fields)
        \/ p.score < 0 \/ p.score > 100
        \/ \E i \in 1..Len(p.user_action_items) :
             p.user_action_items[i].priority \notin {"high", "medium", "low"}

\* C33: a request whose evaluator call gets a malformed reply ends in an
\* internal error with no result, and no record of the index or of the file
\* is written for it.
C33_FailClosed ==
  [][\A text \in Texts, url \in Urls, p \in ProviderReplies :
     \A fetch \in IF NeedsFetch(text, url) THEN FetchReplies ELSE {[ok |-> FALSE, text |-> <<>>]} :
       (/\ event'.op = "analyze" /\ event'.n = 1 /\ event'.url = url
        /\ Malformed(p)
        /\ initialized
        /\ CallsLlm(memory_cache, now, text, url, fetch)
        /\ LET a == AnalyzePolicy(memory_cache, cache_file, medium, now, text, url, fetch,
                                  RemoteAnalyze(p, url, now))
           IN  memory_cache' = a.cache /\ cache_file' = a.file /\ event' = a.event)
       => /\ event'.ret = "HTTPException" /\ event'.status = 500
          /\ event'.res = NoResult /\ event'.made = NoResult
          /\ \A k \in Keys :
               /\ (IsDict(memory_cache') /\ Contains(memory_cache', k))
                  => (IsDict(memory_cache) /\ memory_cache'.items[k] = memory_cache.items[k])
               /\ (IsImage(cache_file') /\ Contains(cache_file'.value, k))
                  => \/ (IsImage(cache_file) /\ cache_file'.value.items[k] = cache_file.value.items[k])
                     \/ (IsDict(memory_cache) /\ cache_file'.value.items[k] = memory_cache.items[k])]_vars

\* An analyze has failed with status 500 on an empty index with no file, and
\* index and file are as they were.
C33_Witness ==
  /\ event.op = "analyze" /\ event.n = 1 /\ event.llm = "Exception"
  /\ event.ret = "HTTPException" /\ event.status = 500
  /\ IsDict(memory_cache) /\ \A k \in Keys : ~Contains(memory_cache, k)
  /\ cache_file = FileMissing

\* C35: on a writable medium, when every call of every thread has ended, the
\* file holds the index as it is: the dump written last has missed no change
\* another thread made.  A file that was never written is missing and the
\* index is empty.
C35_QuiescentFile ==
  (Quiet /\ medium = "writable")
  => IF cache_file = FileMissing THEN memory_cache = EmptyDict
     ELSE cache_file = JsonFile(memory_cache)

\* A clear was the last call to end and wrote the last dump, and the record
\* another thread stored after the clear emptied the index is in the file.
C35_Witness ==
  /\ Quiet /\ event.op = "clear" /\ event.ret = "None"
  /\ Contains(memory_cache, "k1") /\ memory_cache.items["k1"] # GoodEntry
  /\ cache_file = JsonFile(memory_cache)

\* Record e has a timestamp that does not parse or a payload that is no
\* valid result.
Unusable(e) ==
  /\ e.shape = "object"
  /\ \/ "timestamp" \in e.fields /\ (e.timestamp.type # "str" \/ ~e.timestamp.iso)
     \/ "result" \in e.fields /\ (e.result.type # "dict" \/ ~Validates(e.result))

\* C36 as claimed: a get(k) that finds a record with an unparsable timestamp
\* or an invalid payload returns absent and leaves the index and the file as
\* they were; a size() that follows counts the record and a get(k) that
\* follows is a miss again.
C36_CorruptIgnored ==
  [][\A k \in Keys :
       (/\ event'.op = "get" /\ event'.key = k
        /\ IsDict(memory_cache) /\ Unusable(memory_cache.items[k]))
       => /\ event'.ret = "None"
          /\ memory_cache' = memory_cache
          /\ cache_file' = cache_file]_vars

\* The file does not hold the record the index has under k.
Unsaved(k) ==
  /\ IsDict(memory_cache) /\ Contains(memory_cache, k)
  /\ ~(IsImage(cache_file) /\ cache_file.value.items[k] = memory_cache.items[k])

\* C37: when the index holds a record that the file has not got, the next
\* set, clear or evicting get that returns on a writable medium writes the
\* whole index: the file then holds that record, if the index still does,
\* and what a reader loads from the file is the index.
C37_NextWriteRecovers ==
  [][\A k \in Keys :
       (/\ medium = "writable" /\ ~Raised(event')
        /\ \/ event'.op \in {"set", "clear"}
           \/ event'.op = "get" /\ memory_cache' # memory_cache
        /\ Unsaved(k))
       => /\ cache_file' = JsonFile(memory_cache')
          /\ Contains(memory_cache', k)
             => cache_file'.value.items[k] = memory_cache'.items[k]
          /\ Synced']_vars

\* A set under k2 has returned on a writable medium a day after the record
\* under k1 was written, and the file holds both.
C37_Witness ==
  /\ event.op = "set" /\ event.key = "k2" /\ event.ret = "None" /\ medium = "writable"
  /\ Stamped(memory_cache, "k1") /\ Stamped(memory_cache, "k2")
  /\ Age(memory_cache, "k2") = 0 /\ Age(memory_cache, "k1") > 0
  /\ memory_cache.items["k1"].fields = {"result", "timestamp", "text_hash"}
  /\ cache_file = JsonFile(memory_cache)

\* The indexes one call can have made of the index of this state.
OneCallOn(c) ==
  {[c EXCEPT !.items[k] = NewEntry(k, r, now)] : k \in {j \in Keys : IsDict(c)}, r \in Results}
    \cup {[c EXCEPT !.items[k] = Absent] : k \in {j \in Keys : IsDict(c)}}
    \cup {EmptyDict}

\* C38: a construction that follows a stop of a running process, between two
\* calls or inside a durable write, succeeds, and the index it loads is
\* empty or is the mapping in the file; the file is never written but with
\* the whole index of that moment, or left unparsable by a write that failed
\* or was cut short.  So the mapping in the file is an index that was in
\* memory, and so is what a restart loads.
C38_RestartSafe ==
  [][/\ (initialized /\ event'.op = "init")
        => /\ event'.ret = "None"
           /\ \/ memory_cache' = EmptyDict
              \/ cache_file'.content = "json" /\ memory_cache' = cache_file'.value
     /\ cache_file' # cache_file
        => \/ cache_file' = FileUnparsable
           \/ cache_file' = JsonFile(memory_cache')
           \/ event'.op = "init" /\ cache_file' \in {JsonFile(c) : c \in OneCallOn(memory_cache)}]_vars

\* The process stopped inside the save of a set on an index of one record,
\* and started again with an empty index on a file that does not parse.
C38_Witness ==
  /\ event.op = "init" /\ event.key = "save" /\ event.ret = "None"
  /\ medium = "writable" /\ cache_file = FileUnparsable
  /\ memory_cache = EmptyDict /\ now > 0

\* C39 as claimed: of the threads that construct CacheManager at the same
\* time for the first time, none is left without the instance, one instance
\* is made, the index is emptied once and one file lock is made, and no step
\* of a construction takes out of the index a key that was set through the
\* instance.
C39_SingleInitialization ==
  [][event'.op = "construct"
     => /\ \A t \in Threads : thr'[t].pc # "AttributeError"
        /\ event'.instances <= 1
        /\ event'.emptied <= 1
        /\ event'.locks <= 1
        /\ \A k \in event.stored : Contains(memory_cache, k) => Contains(memory_cache', k)]_vars

====
